---------------------------- MODULE Spec2Model ----------------------------
(***************************************************************************)
(* Collection and monitoring orchestration of the sellerboard extension.   *)
(*                                                                         *)
(*   - handleBatchCollect and sendMessageToTabWithRetry                    *)
(*       (src/unnamed/part_001, the Supabase service worker)               *)
(*   - handleStoreScraping / processScrapingQueue / stopStoreScraping      *)
(*       (src/background/service-worker.js)                                *)
(*   - MonitoringService (src/background/margin-analysis-service.js)       *)
(*   - handleSaveProduct, updateStats and the start-up of the worker       *)
(*       (src/background/service-worker.js)                                *)
(*   - initializeSupabase (src/unnamed/part_001)                           *)
(*   - ApiManager.bulkRegister (src/unnamed/part_000)                      *)
(*                                                                         *)
(* Every await of the source is a point where the event loop may run       *)
(* another handler, so every await ends an action of the model.  The       *)
(* engines share no state: the batch engine keeps its state in the locals  *)
(* of one invocation, the store-scraping engine in module-level variables  *)
(* of service-worker.js, the monitoring service in its own fields.  Each   *)
(* engine therefore has its own next-state relation and specification.     *)
(***************************************************************************)
EXTENDS Integers, Sequences, FiniteSets, TLC

VARIABLES
    engine,             \* the engine a behaviour exercises
    \* ---- handleBatchCollect (src/unnamed/part_001) ----
    runs,               \* one record per handleBatchCollect invocation
    \* ---- store scraping (src/background/service-worker.js) ----
    scrapingQueue,      \* let scrapingQueue
    isScrapingActive,   \* let isScrapingActive
    currentTabId,       \* let currentTabId (NoTab for null)
    completedCount,     \* let completedCount
    chains,             \* the processScrapingQueue chains started so far
    pageMsgs,           \* messages sent to currentTabId since the last start
    scrapeTabs,         \* pages opened by processScrapingQueue and still open
    runClean,           \* no stop and no overlapping start since the last start
    \* ---- MonitoringService (src/background/margin-analysis-service.js) ----
    monitoringProducts, \* this.monitoringProducts: product id -> product
    initialized,        \* this.initialized
    loading,            \* the list read by loadMonitoringList, until it is applied
    stored,             \* chrome.storage.local 'monitoringProducts'
    alarms,             \* chrome.alarms: alarm name -> period in minutes
    firings,            \* alarm events dispatched and not yet handled
    calls,              \* start/stop/updateMonitoringOptions calls in flight
    checks,             \* the checkProduct executions started so far
    monTabs,            \* pages opened by checkProduct and still open
    notifications,      \* chrome.notifications created, oldest first
    stopped,            \* ids whose stopMonitoring returned, not started since
    now,                \* Date.now()
    \* ---- product storage and start-up (src/background/service-worker.js) ----
    products,           \* chrome.storage.local 'products'
    settings,           \* chrome.storage.local 'settings'
    stats,              \* chrome.storage.local 'stats'
    saves,              \* the handleSaveProduct executions since the worker started
    boot,               \* how far the start-up of the worker has come
    \* ---- initializeSupabase (src/unnamed/part_001) ----
    supabaseClient,     \* let supabaseClient (NoClient for null)
    clients,            \* the SupabaseClient objects created and their initialize()
    inits,              \* the initializeSupabase calls made so far
    \* ---- ApiManager (src/unnamed/part_000) ----
    platformApi,        \* this.platformApis has an API for the platform
    credentials,        \* this.credentials has credentials for the platform
    bulk,               \* the bulkRegister invocation
    registrationLogs    \* chrome.storage.local 'registrationLogs'

bvars == <<runs>>
svars == <<scrapingQueue, isScrapingActive, currentTabId, completedCount,
           chains, pageMsgs, scrapeTabs, runClean>>
mvars == <<monitoringProducts, initialized, loading, stored, alarms, firings,
           calls, checks, monTabs, notifications, stopped, now>>
pvars == <<products, settings, stats, saves, boot>>
cvars == <<supabaseClient, clients, inits>>
avars == <<platformApi, credentials, bulk, registrationLogs>>
ovars == <<pvars, cvars, avars>>
vars == <<engine, bvars, svars, mvars, ovars>>

(***************************************************************************)
(* Generic helpers                                                         *)
(***************************************************************************)
RECURSIVE SelectSeqOf(_, _)
\* Array.prototype.filter on a sequence, for a set of kept elements.
SelectSeqOf(s, keep) ==
    IF s = <<>> THEN <<>>
    ELSE IF Head(s) \in keep THEN <<Head(s)>> \o SelectSeqOf(Tail(s), keep)
         ELSE SelectSeqOf(Tail(s), keep)

(***************************************************************************)
(*                     BATCH COLLECTION (part_001)                         *)
(***************************************************************************)

\* The two invocations of handleBatchCollect that may be alive at once: the
\* onMessage listener calls the handler for every 'batchCollect' message.
RunIds == {"A", "B"}

\* The five patterns of isProductPage.
ProductPatterns ==
    {"aliexpress.com/item/", "taobao.com/item", "1688.com/offer/",
     "tmall.com/item", "detail.tmall.com"}

\* Sample addresses, "" standing for a tab without url.
UrlAli == "https://www.aliexpress.com/item/1005.html"
UrlTmall == "https://detail.tmall.com/item.htm?id=7"
UrlOther == "https://example.com/about"
UrlNone == ""

\* RegExp.prototype.test of a pattern on the sample addresses.
PatternTest(pattern, url) ==
    <<pattern, url>> \in
        {<<"aliexpress.com/item/", UrlAli>>,
         <<"detail.tmall.com", UrlTmall>>,
         <<"tmall.com/item", UrlTmall>>}

isProductPage(url) ==
    IF url = UrlNone THEN FALSE
    ELSE \E pattern \in ProductPatterns : PatternTest(pattern, url)

\* Tab lists chrome.tabs.query may return for the current window.
Tab(id, title, url) == [id |-> id, title |-> title, url |-> url]
WindowSamples ==
    {<<>>,
     <<Tab(1, "about", UrlOther), Tab(2, "", UrlNone)>>,
     <<Tab(1, "ali", UrlAli), Tab(2, "about", UrlOther), Tab(3, "", UrlTmall),
       Tab(4, "ali", UrlAli)>>}

\* Error messages: the connection error sendMessageToTabWithRetry looks for,
\* and any other message.
ErrConnection == "Could not establish connection. Receiving end does not exist."
ErrOther == "No tab with id"
ErrNoProductTabs == "no collectible product page"
SendErrors == {ErrConnection, ErrOther}
\* Mutant: every failure of the first attempt counts as a connection error.
IsAnyError(msg) == msg \in SendErrors
\* error.message.includes('Could not establish connection')
IsConnectionError(msg) == msg = ErrConnection
\* The entry of a rejected chrome.tabs.sendMessage in the trace of a call.
Failed(msg) == IF msg = ErrConnection THEN "failedConnection" ELSE "failedOther"

\* Default of the parameter `retries` of sendMessageToTabWithRetry.
DefaultRetries == 3
\* Bound: the largest value of `retries` a call is given.
MaxRetries == 4

\* A record per invocation: its position, the locals of handleBatchCollect
\* (productTabs, i, results), the locals of the sendMessageToTabWithRetry
\* call of the current item (retries, attempt for its i, error) with the
\* trace of what that call has done while it runs, and the messages sent.
IdleRun ==
    [pc |-> "idle", productTabs |-> <<>>, i |-> 0,
     results |-> [total |-> 0, success |-> 0, failed |-> 0, skipped |-> 0,
                  errors |-> <<>>],
     retries |-> DefaultRetries, attempt |-> 0, error |-> "", trace |-> <<>>,
     wait |-> "",
     progress |-> <<>>, responses |-> <<>>]

\* productTabs = tabs.filter(tab => isProductPage(tab.url))
FilterProductTabs(tabs) ==
    SelectSeqOf(tabs, {t \in {tabs[k] : k \in DOMAIN tabs} : isProductPage(t.url)})

\* The tab of the current iteration.
CurTab(run) == run.productTabs[run.i + 1]

\* sendResponse({success: true, results}) after the loop.
RespondResults(run) ==
    [run EXCEPT !.pc = "done",
                !.responses = Append(@, [success |-> TRUE, results |-> run.results,
                                         error |-> ""])]

\* Mutant: the failure ends the invocation without a response.
RespondErrorDropped(run, msg) == [run EXCEPT !.pc = "done"]

\* sendResponse({success: false, error}).
RespondError(run, msg) ==
    [run EXCEPT !.pc = "done",
                !.responses = Append(@, [success |-> FALSE, results |-> IdleRun.results,
                                         error |-> msg])]

\* Head of the for loop: when i < productTabs.length broadcast batchProgress
\* and call chrome.tabs.update (awaited); otherwise leave the loop and respond.
LoopHead(run) ==
    IF run.i < Len(run.productTabs)
    THEN [run EXCEPT !.pc = "update",
                     !.attempt = 0, !.error = "",
                     !.progress = Append(@, [current |-> run.i + 1,
                                             total |-> Len(run.productTabs)])]
    ELSE RespondResults(run)

\* i++ and back to the loop head.
NextIteration(run) == LoopHead([run EXCEPT !.i = @ + 1, !.trace = <<>>])

\* Mutant: the failure is counted but its reason is not recorded.
CatchItemNoReason(run, msg) ==
    NextIteration([run EXCEPT !.results.failed = @ + 1])

\* catch (error) of the loop body: results.failed++, results.errors.push(...).
CatchItem(run, msg) ==
    NextIteration(
        [run EXCEPT !.results.failed = @ + 1,
                    !.results.errors =
                        Append(@, [tab |-> IF CurTab(run).title # ""
                                           THEN CurTab(run).title
                                           ELSE CurTab(run).url,
                                   error |-> msg])])

\* sendMessageToTabWithRetry returned: results.success++, then delay(2000).
ItemSucceeded(run) ==
    [run EXCEPT !.results.success = @ + 1, !.pc = "itemDelay", !.trace = <<>>]

\* Next turn of the retry loop (i++ of sendMessageToTabWithRetry): another
\* chrome.tabs.sendMessage, or the loop is left and the function returns
\* undefined.
RetryLoopNext(run) ==
    IF run.attempt + 1 < run.retries
    THEN [run EXCEPT !.attempt = @ + 1, !.pc = "send",
                     !.trace = Append(@, "send")]
    ELSE ItemSucceeded([run EXCEPT !.attempt = @ + 1])

\* sendMessageToTabWithRetry is called: i = 0 and the first
\* chrome.tabs.sendMessage, or no turn of the loop at all.
RetryLoopEnter(run) ==
    IF 0 < run.retries
    THEN [run EXCEPT !.attempt = 0, !.pc = "send", !.trace = Append(@, "send")]
    ELSE ItemSucceeded([run EXCEPT !.attempt = 0])

\* Steps 3 and 4 of the catch block of sendMessageToTabWithRetry.
ThrowOrBackoff(run) ==
    IF run.attempt = run.retries - 1
    THEN CatchItem(run, run.error)
    ELSE [run EXCEPT !.pc = "backoff", !.trace = Append(@, "delay1000")]

\* A step of invocation r of handleBatchCollect.
SetRun(r, run) ==
    /\ engine = "batch"
    /\ runs' = [runs EXCEPT ![r] = run]
    /\ UNCHANGED <<engine, svars, mvars, ovars>>

\* onMessage 'batchCollect': handleBatchCollect runs to its first await.
BatchCollect(r) ==
    /\ runs[r].pc = "idle"
    /\ SetRun(r, [runs[r] EXCEPT !.pc = "query"])

\* chrome.tabs.query resolved: filter, empty check, results, first iteration.
QueryResolved(r) ==
    /\ runs[r].pc = "query"
    /\ \E tabs \in WindowSamples :
         LET productTabs == FilterProductTabs(tabs) IN
         IF Len(productTabs) = 0
         THEN SetRun(r, RespondError(runs[r], ErrNoProductTabs))
         ELSE SetRun(r, LoopHead([runs[r] EXCEPT
                                    !.productTabs = productTabs,
                                    !.i = 0,
                                    !.results.total = Len(productTabs)]))

\* chrome.tabs.query rejected: the outer catch responds with the error.
QueryRejected(r) ==
    /\ runs[r].pc = "query"
    /\ SetRun(r, RespondError(runs[r], ErrOther))

\* chrome.tabs.update resolved: waitForTabLoad(tab.id) sets its 10 s timer
\* and asks chrome.tabs.get for the tab; the promise is awaited.
UpdateResolved(r) ==
    /\ runs[r].pc = "update"
    /\ SetRun(r, [runs[r] EXCEPT !.pc = "load", !.wait = "get"])

\* chrome.tabs.update rejected (the tab was closed): the item fails.
UpdateRejected(r) ==
    /\ runs[r].pc = "update"
    /\ SetRun(r, CatchItem(runs[r], ErrOther))

\* The waitForTabLoad promise resolves, `how` telling by what ("status",
\* "event", "timeout", and "timeoutListening" for the timer of a call whose
\* onUpdated listener is registered): delay(1500) is awaited.
WaitResolved(run, how) == [run EXCEPT !.pc = "settle", !.wait = how]

\* Mutant: the callback of chrome.tabs.get rejects the promise for a tab
\* that is gone.
LoadGetMissingRejects(r) ==
    /\ runs[r].pc = "load" /\ runs[r].wait = "get"
    /\ SetRun(r, CatchItem(runs[r], ErrOther))

\* The callback of chrome.tabs.get runs with tab.status === 'complete':
\* clearTimeout and resolve.
LoadGetComplete(r) ==
    /\ runs[r].pc = "load" /\ runs[r].wait = "get"
    /\ SetRun(r, WaitResolved(runs[r], "status"))

\* The callback runs with another status: the onUpdated listener is added.
LoadGetLoading(r) ==
    /\ runs[r].pc = "load" /\ runs[r].wait = "get"
    /\ SetRun(r, [runs[r] EXCEPT !.wait = "listening"])

\* The callback runs without a tab (the tab is gone): tab.status throws
\* inside the callback, no listener is added, the timer stays set.
LoadGetMissing(r) ==
    /\ runs[r].pc = "load" /\ runs[r].wait = "get"
    /\ SetRun(r, [runs[r] EXCEPT !.wait = "deaf"])

\* onUpdated reports 'complete' for the tab to the listener: the listener is
\* removed, clearTimeout and resolve.
LoadTabComplete(r) ==
    /\ runs[r].pc = "load" /\ runs[r].wait = "listening"
    /\ SetRun(r, WaitResolved(runs[r], "event"))

\* The 10 s timer of waitForTabLoad fires: resolve.  The callback of the
\* timer removes no listener: the one the call has added stays registered.
LoadTimeout(r) ==
    /\ runs[r].pc = "load"
    /\ SetRun(r, WaitResolved(runs[r], IF runs[r].wait = "listening"
                                       THEN "timeoutListening" ELSE "timeout"))

\* delay(1500) over: sendMessageToTabWithRetry is called.
SettleDone(r) ==
    /\ runs[r].pc = "settle"
    /\ SetRun(r, RetryLoopEnter([runs[r] EXCEPT !.wait = ""]))

\* What the collector of the page answers to 'trigger_product': the result
\* of collectSingle, or {success: false, error} when it failed.
CollectorReplies ==
    {[success |-> TRUE, error |-> ""],
     [success |-> FALSE, error |-> "extraction failed"]}

\* chrome.tabs.sendMessage resolved with reply: the reply is returned, and
\* handleBatchCollect, which does not read it, goes on to results.success++
\* and delay(2000).
SendResolvedWith(r, reply) ==
    /\ runs[r].pc = "send"
    /\ reply \in CollectorReplies
    /\ SetRun(r, ItemSucceeded(runs[r]))

SendResolved(r) == \E reply \in CollectorReplies : SendResolvedWith(r, reply)

\* chrome.tabs.sendMessage rejected with msg.
SendRejected(r) ==
    /\ runs[r].pc = "send"
    /\ \E msg \in SendErrors :
         LET run == [runs[r] EXCEPT !.error = msg,
                                    !.trace = Append(@, Failed(msg))] IN
         IF run.attempt = 0 /\ IsConnectionError(msg)
         THEN SetRun(r, [run EXCEPT !.pc = "inject",
                                    !.trace = Append(@, "inject")])
         ELSE SetRun(r, ThrowOrBackoff(run))

\* chrome.scripting.executeScript resolved: delay(500) is awaited.
InjectResolved(r) ==
    /\ runs[r].pc = "inject"
    /\ SetRun(r, [runs[r] EXCEPT !.pc = "injectWait",
                                  !.trace = Append(@, "delay500")])

\* chrome.scripting.executeScript rejected: logged, then steps 3 and 4.
InjectRejected(r) ==
    /\ runs[r].pc = "inject"
    /\ SetRun(r, ThrowOrBackoff(runs[r]))

\* delay(500) over: continue.
InjectWaitDone(r) ==
    /\ runs[r].pc = "injectWait"
    /\ SetRun(r, RetryLoopNext(runs[r]))

\* delay(1000) over: next turn of the retry loop.
BackoffDone(r) ==
    /\ runs[r].pc = "backoff"
    /\ SetRun(r, RetryLoopNext(runs[r]))

\* delay(2000) over: next tab.
ItemDelayDone(r) ==
    /\ runs[r].pc = "itemDelay"
    /\ SetRun(r, NextIteration(runs[r]))

\* A step of invocation r after its start: one of its awaited requests
\* settles, or one of its delays is over.
RunStep(r) ==
    \/ QueryResolved(r)
    \/ QueryRejected(r)
    \/ UpdateResolved(r)
    \/ UpdateRejected(r)
    \/ LoadGetComplete(r)
    \/ LoadGetLoading(r)
    \/ LoadGetMissing(r)
    \/ LoadTabComplete(r)
    \/ LoadTimeout(r)
    \/ SettleDone(r)
    \/ SendResolved(r)
    \/ SendRejected(r)
    \/ InjectResolved(r)
    \/ InjectRejected(r)
    \/ InjectWaitDone(r)
    \/ BackoffDone(r)
    \/ ItemDelayDone(r)

InitBatch == runs = [r \in RunIds |-> IdleRun]

\* An invocation on one product tab, about to call
\* sendMessageToTabWithRetry(tab.id, message, retries).
CallingRun(retries) ==
    [IdleRun EXCEPT !.pc = "settle",
                    !.productTabs = <<Tab(1, "ali", UrlAli)>>,
                    !.results.total = 1,
                    !.retries = retries,
                    !.progress = <<[current |-> 1, total |-> 1]>>]

\* The steps of a sendMessageToTabWithRetry call and of its return.
NextRetry ==
    \E r \in RunIds :
        \/ SettleDone(r)
        \/ SendResolved(r)
        \/ SendRejected(r)
        \/ InjectResolved(r)
        \/ InjectRejected(r)
        \/ InjectWaitDone(r)
        \/ BackoffDone(r)
        \/ ItemDelayDone(r)

NextBatch ==
    \E r \in RunIds :
        \/ BatchCollect(r)
        \/ QueryResolved(r)
        \/ QueryRejected(r)
        \/ UpdateResolved(r)
        \/ UpdateRejected(r)
        \/ LoadGetComplete(r)
        \/ LoadGetLoading(r)
        \/ LoadGetMissing(r)
        \/ LoadTabComplete(r)
        \/ LoadTimeout(r)
        \/ SettleDone(r)
        \/ SendResolved(r)
        \/ SendRejected(r)
        \/ InjectResolved(r)
        \/ InjectRejected(r)
        \/ InjectWaitDone(r)
        \/ BackoffDone(r)
        \/ ItemDelayDone(r)

(***************************************************************************)
(*                  STORE SCRAPING (service-worker.js)                     *)
(***************************************************************************)

\* null of currentTabId and of a chain without page.
NoTab == 0
\* sender.tab.id of the page that asks for store scraping.
SenderTabIds == {1}
\* The chains of the 'startStoreScraping' messages of one behaviour: every
\* handleStoreScraping call starts one, chain k that of the k-th message.
ChainIds == {1, 2}

LinkA == "https://shop.example/p/a"
LinkB == "https://shop.example/p/b"
\* message.links of 'startStoreScraping'.
LinkSamples == {<<>>, <<LinkA>>, <<LinkA, LinkB>>}

\* The store-scraping state as one record, so that a handler's synchronous
\* part is a function from state to state.
SCur ==
    [scrapingQueue |-> scrapingQueue, isScrapingActive |-> isScrapingActive,
     currentTabId |-> currentTabId, completedCount |-> completedCount,
     chains |-> chains, pageMsgs |-> pageMsgs, scrapeTabs |-> scrapeTabs,
     runClean |-> runClean]

SCommit(s) ==
    /\ engine = "scrape"
    /\ UNCHANGED <<engine, bvars, mvars, ovars>>
    /\ scrapingQueue' = s.scrapingQueue
    /\ isScrapingActive' = s.isScrapingActive
    /\ currentTabId' = s.currentTabId
    /\ completedCount' = s.completedCount
    /\ chains' = s.chains
    /\ pageMsgs' = s.pageMsgs
    /\ scrapeTabs' = s.scrapeTabs
    /\ runClean' = s.runClean

NewChain == [pc |-> "entry", totalLinks |-> 0, url |-> "", tab |-> NoTab]
\* A chain whose function has returned, or died of an uncaught rejection.
Over(how) == [pc |-> how, totalLinks |-> 0, url |-> "", tab |-> NoTab]

\* Chains that have neither returned nor died.
LiveChains(s) ==
    {c \in DOMAIN s.chains : s.chains[c].pc \notin {"ended", "crashed"}}

\* sendProgress(current, total)
sendProgress(s, current, total) ==
    IF s.currentTabId # NoTab
    THEN [s EXCEPT !.pageMsgs = Append(@, [action |-> "updateProgress",
                                           current |-> current, total |-> total])]
    ELSE s

\* processScrapingQueue() up to its first await, run by chain c.
processScrapingQueue(s, c) ==
    IF ~s.isScrapingActive \/ Len(s.scrapingQueue) = 0
    THEN IF s.currentTabId # NoTab
         THEN [s EXCEPT !.chains[c].pc = "complete",
                        !.pageMsgs = Append(@, [action |-> "scrapingComplete",
                                                current |-> 0, total |-> 0])]
         ELSE [s EXCEPT !.isScrapingActive = FALSE, !.completedCount = 0,
                        !.chains[c] = Over("ended")]
    ELSE [s EXCEPT !.scrapingQueue = Tail(@),
                   !.chains[c] = [pc |-> "create",
                                  totalLinks |-> Len(s.scrapingQueue) + s.completedCount,
                                  url |-> Head(s.scrapingQueue),
                                  tab |-> NoTab]]

\* Mutant: the initial progress message of handleStoreScraping is left out.
handleStoreScrapingNoInitial(s, links, tabId) ==
    LET s1 == [s EXCEPT !.scrapingQueue = links, !.isScrapingActive = TRUE,
                        !.currentTabId = tabId, !.completedCount = 0,
                        !.pageMsgs = <<>>,
                        !.runClean = (LiveChains(s) = {}),
                        !.chains = Append(@, NewChain)]
    IN processScrapingQueue(s1, Len(s1.chains))

\* handleStoreScraping(links, tabId): synchronous up to the first await of
\* the processScrapingQueue call it ends with.
handleStoreScraping(s, links, tabId) ==
    LET s1 == [s EXCEPT !.scrapingQueue = links, !.isScrapingActive = TRUE,
                        !.currentTabId = tabId, !.completedCount = 0,
                        !.pageMsgs = <<>>,
                        !.runClean = (LiveChains(s) = {}),
                        !.chains = Append(@, NewChain)]
        s2 == sendProgress(s1, 0, Len(links))
    IN processScrapingQueue(s2, Len(s2.chains))

\* Mutant: the stop also ends the chains and closes their pages.
stopStoreScrapingAbort(s) ==
    [s EXCEPT !.isScrapingActive = FALSE, !.scrapingQueue = <<>>,
              !.completedCount = 0, !.runClean = FALSE,
              !.scrapeTabs = {},
              !.chains = [c \in DOMAIN s.chains |-> Over("ended")]]

\* stopStoreScraping()
stopStoreScraping(s) ==
    [s EXCEPT !.isScrapingActive = FALSE, !.scrapingQueue = <<>>,
              !.completedCount = 0, !.runClean = FALSE]

\* After the try/catch of an item: completedCount++, sendProgress, and the
\* settings read that is awaited.
AfterItem(s, c) ==
    LET s1 == [s EXCEPT !.completedCount = @ + 1] IN
    [sendProgress(s1, s1.completedCount, s.chains[c].totalLinks)
        EXCEPT !.chains[c].pc = "getSetting"]

\* A page id chrome.tabs.create has not handed out to an open page.
FreshTab(s) ==
    CHOOSE t \in 2..(Cardinality(s.scrapeTabs) + 2) : t \notin s.scrapeTabs

AtPc(c, pc) == c \in DOMAIN chains /\ chains[c].pc = pc

\* onMessage 'startStoreScraping'
StartStoreScraping ==
    /\ Len(chains) < Cardinality(ChainIds)
    /\ \E links \in LinkSamples :
         \E tabId \in SenderTabIds :
           SCommit(handleStoreScraping(SCur, links, tabId))

\* onMessage 'stopStoreScraping'
StopStoreScraping ==
    SCommit(stopStoreScraping(SCur))

\* chrome.tabs.create resolved: the page is open, waitForTabLoad is awaited.
CreateResolved(c) ==
    /\ AtPc(c, "create")
    /\ LET t == FreshTab(SCur) IN
       SCommit([SCur EXCEPT !.scrapeTabs = @ \cup {t},
                            !.chains[c].tab = t, !.chains[c].pc = "load"])

\* chrome.tabs.create rejected: caught, the item is over.
CreateRejected(c) ==
    /\ AtPc(c, "create")
    /\ SCommit(AfterItem(SCur, c))

\* waitForTabLoad(tab.id) has added its onUpdated listener and set its
\* 15 s timer.  The listener is told 'complete' for the tab: it is removed,
\* the promise resolves, sleep(1000) is awaited.
ScrapeLoadComplete(c) ==
    /\ AtPc(c, "load")
    /\ SCommit([SCur EXCEPT !.chains[c].pc = "settle"])

\* The 15 s timer fires: the listener is removed, the promise resolves.
ScrapeLoadTimeout(c) ==
    /\ AtPc(c, "load")
    /\ SCommit([SCur EXCEPT !.chains[c].pc = "settle"])

\* sleep(1000) over: the collectProduct request is sent.
ScrapeSettleDone(c) ==
    /\ AtPc(c, "settle")
    /\ SCommit([SCur EXCEPT !.chains[c].pc = "collect"])

\* The collector replied: handleSaveProduct when response?.success &&
\* response.data, otherwise straight to chrome.tabs.remove.
CollectResolved(c) ==
    /\ AtPc(c, "collect")
    /\ \E ok \in BOOLEAN :
         SCommit([SCur EXCEPT !.chains[c].pc = IF ok THEN "save" ELSE "remove"])

\* The collectProduct request failed: caught, the page stays open.
CollectRejected(c) ==
    /\ AtPc(c, "collect")
    /\ SCommit(AfterItem(SCur, c))

\* handleSaveProduct returned (it catches its own errors).
SaveDone(c) ==
    /\ AtPc(c, "save")
    /\ SCommit([SCur EXCEPT !.chains[c].pc = "remove"])

\* chrome.tabs.remove resolved.
RemoveResolved(c) ==
    /\ AtPc(c, "remove")
    /\ SCommit(AfterItem([SCur EXCEPT !.scrapeTabs = @ \ {chains[c].tab}], c))

\* chrome.tabs.remove rejected: caught.
RemoveRejected(c) ==
    /\ AtPc(c, "remove")
    /\ SCommit(AfterItem(SCur, c))

\* getSetting('settings') resolved: sleep(delay).
GetSettingResolved(c) ==
    /\ AtPc(c, "getSetting")
    /\ SCommit([SCur EXCEPT !.chains[c].pc = "rateSleep"])

\* getSetting('settings') rejected: nothing catches it, the chain dies.
GetSettingRejected(c) ==
    /\ AtPc(c, "getSetting")
    /\ SCommit([SCur EXCEPT !.chains[c] = Over("crashed")])

\* sleep(delay) over: processScrapingQueue() is called again.
RateSleepDone(c) ==
    /\ AtPc(c, "rateSleep")
    /\ SCommit(processScrapingQueue(SCur, c))

\* The scrapingComplete send settled (either way): isScrapingActive = false,
\* completedCount = 0, return.
CompleteSettled(c) ==
    /\ AtPc(c, "complete")
    /\ SCommit([SCur EXCEPT !.isScrapingActive = FALSE, !.completedCount = 0,
                            !.chains[c] = Over("ended")])

\* A step of chain c: one of its awaited requests settles, or its timer
\* fires.
ChainStep(c) ==
    \/ CreateResolved(c)
    \/ CreateRejected(c)
    \/ ScrapeLoadComplete(c)
    \/ ScrapeLoadTimeout(c)
    \/ ScrapeSettleDone(c)
    \/ CollectResolved(c)
    \/ CollectRejected(c)
    \/ SaveDone(c)
    \/ RemoveResolved(c)
    \/ RemoveRejected(c)
    \/ GetSettingResolved(c)
    \/ GetSettingRejected(c)
    \/ RateSleepDone(c)
    \/ CompleteSettled(c)

InitScrape ==
    /\ scrapingQueue = <<>>
    /\ isScrapingActive = FALSE
    /\ currentTabId = NoTab
    /\ completedCount = 0
    /\ chains = <<>>
    /\ pageMsgs = <<>>
    /\ scrapeTabs = {}
    /\ runClean = FALSE

NextScrape ==
    \/ StartStoreScraping
    \/ StopStoreScraping
    \/ \E c \in ChainIds :
         \/ CreateResolved(c)
         \/ CreateRejected(c)
         \/ ScrapeLoadComplete(c)
         \/ ScrapeLoadTimeout(c)
         \/ ScrapeSettleDone(c)
         \/ CollectResolved(c)
         \/ CollectRejected(c)
         \/ SaveDone(c)
         \/ RemoveResolved(c)
         \/ RemoveRejected(c)
         \/ GetSettingResolved(c)
         \/ GetSettingRejected(c)
         \/ RateSleepDone(c)
         \/ CompleteSettled(c)

(***************************************************************************)
(*          MONITORING SERVICE (margin-analysis-service.js)                *)
(***************************************************************************)

\* "Keep the latest 100 only": the cap of history.price and history.stock.
HistoryCap == 100
\* Defaults of the options of startMonitoring.
DefaultInterval == 60
DefaultPriceThreshold == 0
\* Bound: checkProduct executions per product, in one behaviour.
MaxChecks == 2
\* Bound: start/stop/updateMonitoringOptions calls in flight at once.
MaxCalls == 1

\* An optional value: a missing property or undefined is <<>>.
Undef == <<>>
Some(x) == <<x>>
\* Destructuring default and Object.assign: the value when present.
Opt(o, default) == IF o = Undef THEN default ELSE o[1]

Abs(x) == IF x < 0 THEN -x ELSE x

\* JavaScript values used as product ids, by their decimal text.
Num(text) == [type |-> "number", text |-> text]
\* A string used as product id; as a Map key it is another key than the
\* number of the same text.
Str(text) == [type |-> "string", text |-> text]
NaN == [type |-> "number", text |-> <<"NaN">>]
Digits == {"0", "1", "2", "3", "4", "5", "6", "7", "8", "9"}

\* `monitor_${productId}`
AlarmName(productId) == <<"monitor_">> \o productId.text
\* alarm.name.startsWith('monitor_')
StartsWithMonitor(name) == name # <<>> /\ Head(name) = "monitor_"
RECURSIVE LeadingDigits(_)
LeadingDigits(text) ==
    IF text = <<>> \/ Head(text) \notin Digits THEN <<>>
    ELSE <<Head(text)>> \o LeadingDigits(Tail(text))
RECURSIVE StripZeros(_)
StripZeros(text) ==
    IF Len(text) > 1 /\ Head(text) = "0" THEN StripZeros(Tail(text)) ELSE text
\* parseInt(text)
parseInt(text) ==
    IF LeadingDigits(text) = <<>> THEN NaN
    ELSE Num(StripZeros(LeadingDigits(text)))
\* parseInt(alarm.name.replace('monitor_', ''))
AlarmProductId(name) == parseInt(Tail(name))

\* The products and options the callers pass.
ProductIds == {Num(<<"7">>)}
ProductSamples == {[id |-> id, price |-> 10000, stock |-> ""] : id \in ProductIds}
NoOptions ==
    [enabled |-> Undef, interval |-> Undef, priceAlert |-> Undef,
     stockAlert |-> Undef, priceThreshold |-> Undef]
StartOptionSamples ==
    {NoOptions,
     [NoOptions EXCEPT !.priceThreshold = Some(500)],
     [NoOptions EXCEPT !.priceAlert = Some(FALSE), !.stockAlert = Some(FALSE)]}
\* Options with an interval that is not positive.
InvalidIntervalOptions ==
    {[NoOptions EXCEPT !.interval = Some(0)],
     [NoOptions EXCEPT !.interval = Some(-5)]}
UpdateOptionSamples ==
    {[NoOptions EXCEPT !.enabled = Some(FALSE)],
     [NoOptions EXCEPT !.interval = Some(30)]}

\* Replies of the page to 'parseProduct'.
Reply(success, price, stock) ==
    [success |-> success, product |-> [price |-> price, stock |-> stock]]
ParseReplies ==
    {Reply(FALSE, 0, "")}
    \cup {Reply(TRUE, p, st) : p \in {10000, 10450, 10500},
                               st \in {"", "out_of_stock"}}

\* x || 'in_stock'
OrInStock(stock) == IF stock = "" THEN "in_stock" ELSE stock

\* The product a page lookup by a parsed id finds: Map.get(productId).
HasProduct(map, productId) == productId \in DOMAIN map

\* monitoringInfo of startMonitoring.
MonitoringInfo(product, options, t) ==
    [id |-> product.id, price |-> product.price, stock |-> product.stock,
     monitoring |->
        [enabled |-> TRUE,
         interval |-> Opt(options.interval, DefaultInterval),
         priceAlert |-> Opt(options.priceAlert, TRUE),
         stockAlert |-> Opt(options.stockAlert, TRUE),
         priceThreshold |-> Opt(options.priceThreshold, DefaultPriceThreshold),
         lastChecked |-> t,
         lastPrice |-> product.price,
         lastStock |-> OrInStock(product.stock)],
     history |->
        [price |-> <<[value |-> product.price, timestamp |-> t]>>,
         stock |-> <<[status |-> OrInStock(product.stock), timestamp |-> t]>>]]

\* Object.assign(product.monitoring, options)
AssignOptions(monitoring, options) ==
    [monitoring EXCEPT
        !.enabled = Opt(options.enabled, @),
        !.interval = Opt(options.interval, @),
        !.priceAlert = Opt(options.priceAlert, @),
        !.stockAlert = Opt(options.stockAlert, @),
        !.priceThreshold = Opt(options.priceThreshold, @)]

\* Mutant: the cap keeps the oldest 100 entries.
TrimHistoryKeepOldest(h) ==
    IF Len(h) > HistoryCap THEN SubSeq(h, 1, HistoryCap) ELSE h

\* if (h.length > 100) h = h.slice(-100)
TrimHistory(h) ==
    IF Len(h) > HistoryCap THEN SubSeq(h, Len(h) - HistoryCap + 1, Len(h)) ELSE h

NoChanges == [price |-> FALSE, stock |-> FALSE, priceChange |-> 0, stockChange |-> Undef]

\* Mutant: the new stock is compared without its 'in_stock' default.
DetectChangesRawStock(product, newData) ==
    [price |-> newData.price # product.monitoring.lastPrice,
     stock |-> newData.stock # product.monitoring.lastStock,
     priceChange |-> IF newData.price # product.monitoring.lastPrice
                     THEN newData.price - product.monitoring.lastPrice ELSE 0,
     stockChange |-> IF newData.stock # product.monitoring.lastStock
                     THEN Some([from |-> product.monitoring.lastStock,
                                to |-> OrInStock(newData.stock)])
                     ELSE Undef]

\* The changes object handleProductUpdate fills in.
DetectChanges(product, newData) ==
    LET newStock == OrInStock(newData.stock) IN
    [price |-> newData.price # product.monitoring.lastPrice,
     stock |-> newStock # product.monitoring.lastStock,
     priceChange |-> IF newData.price # product.monitoring.lastPrice
                     THEN newData.price - product.monitoring.lastPrice ELSE 0,
     stockChange |-> IF newStock # product.monitoring.lastStock
                     THEN Some([from |-> product.monitoring.lastStock,
                                to |-> newStock])
                     ELSE Undef]

\* Mutant: handleProductUpdate pushes the history entries and leaves
\* lastPrice and lastStock as they were.
ApplyChangesKeepsLast(product, newData, changes, t) ==
    LET p1 == IF changes.price
              THEN [product EXCEPT
                      !.history.price =
                          TrimHistory(Append(@, [value |-> newData.price,
                                                 timestamp |-> t]))]
              ELSE product
    IN IF changes.stock
       THEN [p1 EXCEPT
               !.history.stock =
                   TrimHistory(Append(@, [status |-> OrInStock(newData.stock),
                                          timestamp |-> t]))]
       ELSE p1

\* The product after the synchronous part of handleProductUpdate.
ApplyChanges(product, newData, changes, t) ==
    LET p1 == IF changes.price
              THEN [product EXCEPT
                      !.history.price =
                          TrimHistory(Append(@, [value |-> newData.price,
                                                 timestamp |-> t])),
                      !.monitoring.lastPrice = newData.price]
              ELSE product
    IN IF changes.stock
       THEN [p1 EXCEPT
               !.history.stock =
                   TrimHistory(Append(@, [status |-> OrInStock(newData.stock),
                                          timestamp |-> t])),
               !.monitoring.lastStock = OrInStock(newData.stock)]
       ELSE p1

\* stockText[status] of sendNotification.
stockText(status) ==
    CASE status = "in_stock" -> "stock available"
      [] status = "out_of_stock" -> "sold out"
      [] status = "low_stock" -> "low stock"
      [] OTHER -> "undefined"

\* (x * 100).toFixed(1) of the quotient delta / base, in tenths of a percent;
\* <<>> when the quotient is not finite.
PercentTenths(delta, base) ==
    IF base = 0 THEN <<>>
    ELSE LET n == Abs(delta) * 2000 + Abs(base)
             q == n \div (2 * Abs(base))
         IN <<IF (delta < 0) # (base < 0) THEN -q ELSE q>>

\* The price line of the message: direction, sign, amount and percentage.
PriceLine(product, changes) ==
    IF changes.price /\ product.monitoring.priceAlert
       /\ Abs(changes.priceChange) >= product.monitoring.priceThreshold
    THEN <<[direction |-> IF changes.priceChange > 0 THEN "up" ELSE "down",
            plus |-> changes.priceChange > 0,
            amount |-> changes.priceChange,
            percent |-> PercentTenths(changes.priceChange,
                            product.monitoring.lastPrice - changes.priceChange)]>>
    ELSE <<>>

\* Mutant: the stock line is written whether or not stockAlert is set.
StockLineAlways(product, changes) ==
    IF changes.stock
    THEN <<[from |-> stockText(changes.stockChange[1].from),
            to |-> stockText(changes.stockChange[1].to)]>>
    ELSE <<>>

\* The stock line of the message.
StockLine(product, changes) ==
    IF changes.stock /\ product.monitoring.stockAlert
    THEN <<[from |-> stockText(changes.stockChange[1].from),
            to |-> stockText(changes.stockChange[1].to)]>>
    ELSE <<>>

\* The message sendNotification composes; '' is the message without lines.
ComposeMessage(product, changes) ==
    [price |-> PriceLine(product, changes), stock |-> StockLine(product, changes)]
EmptyMessage == [price |-> <<>>, stock |-> <<>>]

\* A product list written by an earlier run of the worker: the product as
\* startMonitoring(product, options) stored it.
RegisteredList(product, options) ==
    [i \in {product.id} |-> MonitoringInfo(product, options, 0)]
\* The alarm scheduleCheck created for it.
RegisteredAlarms(product, options) ==
    [n \in {AlarmName(product.id)} |-> Opt(options.interval, DefaultInterval)]

\* Two products registered side by side by an earlier run of the worker.
\* Ids of each kind a caller of startMonitoring passes: the number a locally
\* saved product has (Date.now()), the same digits as a string, and a string
\* that does not start with a digit.
RoundTripIds == {Num(<<"7">>), Str(<<"7">>), Str(<<"a", "7">>)}
RoundTripProducts == {[id |-> id, price |-> 10000, stock |-> ""] : id \in RoundTripIds}
ProductA == Num(<<"7">>)
ProductB == Num(<<"1", "2">>)
PairIds == {ProductA, ProductB}
PairList ==
    [i \in PairIds |->
        MonitoringInfo([id |-> i, price |-> 10000, stock |-> ""], NoOptions, 0)]
\* Replies that tell a new price, and the old price with a new stock.
RecordReplies == {Reply(TRUE, 10450, ""), Reply(TRUE, 10000, "out_of_stock")}
\* The replies of the pages in the life cycle of a product.
LifecycleReplies == {Reply(FALSE, 0, ""), Reply(TRUE, 10450, "out_of_stock")}
\* Replies of their pages: a failure, and a new price.
PairReplies == {Reply(FALSE, 0, ""), Reply(TRUE, 10450, "")}
\* The positions in checks of one check of A and the checks of B.
PairSlots == 1..(MaxChecks + 1)
PairAlarms == [n \in {AlarmName(i) : i \in PairIds} |-> DefaultInterval]

\* A product whose histories hold n entries, written at times 1..n: the
\* price went back and forth between two values, the stock between two
\* statuses.
LongHistory(product, n) ==
    LET value(i) == IF i % 2 = 1 THEN 10000 ELSE 10450
        status(i) == IF i % 2 = 1 THEN "in_stock" ELSE "out_of_stock"
        info == MonitoringInfo(product, NoOptions, 0)
    IN [info EXCEPT
          !.monitoring.lastPrice = value(n),
          !.monitoring.lastStock = status(n),
          !.history.price = [i \in 1..n |-> [value |-> value(i), timestamp |-> i]],
          !.history.stock = [i \in 1..n |-> [status |-> status(i), timestamp |-> i]]]


\* Mutant: checkProduct does not look at monitoring.enabled.
CheckGuardIgnoresEnabled(map, productId) == HasProduct(map, productId)

\* The guard of checkProduct: the product is registered and enabled.
CheckGuard(map, productId) ==
    /\ HasProduct(map, productId)
    /\ map[productId].monitoring.enabled

\* A checkProduct execution.  ref is <<>> while the product object it holds
\* is the one in the map, and a copy of that object once the map entry was
\* deleted or replaced.  prev and seen record what handleProductUpdate
\* compared: lastPrice/lastStock before the update, and the reply.
NewCheck(productId) ==
    [id |-> productId, pc |-> "create", tab |-> NoTab, ref |-> <<>>,
     changes |-> NoChanges, saveOk |-> TRUE, outcome |-> "",
     prev |-> [price |-> 0, stock |-> ""], seen |-> [price |-> 0, stock |-> ""]]
\* A checkProduct execution that is over, and how it ended.
CheckOver(productId, outcome) ==
    [NewCheck(productId) EXCEPT !.pc = "over", !.outcome = outcome]

CheckAt(k, pc) == k \in DOMAIN checks /\ checks[k].pc = pc

\* The product object execution k of checkProduct holds.
HeldProduct(k) ==
    IF checks[k].ref = <<>> THEN monitoringProducts[checks[k].id]
    ELSE checks[k].ref[1]

\* The map entry of id is deleted or replaced: the executions that hold the
\* old object keep it.
Detach(chk, map, id) ==
    [k \in DOMAIN chk |->
        IF chk[k].id = id /\ chk[k].pc \in {"create", "saving"}
           /\ chk[k].ref = <<>> /\ id \in DOMAIN map
        THEN [chk[k] EXCEPT !.ref = <<map[id]>>]
        ELSE chk[k]]

\* Map.set(id, product) and Map.delete(id).
MapSet(map, id, product) ==
    [i \in DOMAIN map \cup {id} |-> IF i = id THEN product ELSE map[i]]
MapDelete(map, id) == [i \in DOMAIN map \ {id} |-> map[i]]

\* saveMonitoringList(): the list of the map's values replaces the stored
\* list, unless the write fails.
saveMonitoringList(map, ok) == IF ok THEN map ELSE stored

\* A page id chrome.tabs.create has not handed out to an open page.
FreshMonTab == CHOOSE t \in 1..(Cardinality(monTabs) + 1) : t \notin monTabs

EmptyMap == [i \in {} |-> 0]

MStep ==
    /\ engine \in {"monitor", "store"}
    /\ UNCHANGED <<engine, bvars, svars, now, ovars>>

\* The read of loadMonitoringList resolved: products.forEach(set), then
\* setupAlarmListener and initialized = true.
MLoadResolved ==
    /\ MStep
    /\ loading # Undef
    /\ LET list == loading[1] IN
       /\ monitoringProducts' =
             [i \in DOMAIN monitoringProducts \cup DOMAIN list |->
                 IF i \in DOMAIN list THEN list[i] ELSE monitoringProducts[i]]
       /\ checks' = [k \in DOMAIN checks |->
                       IF checks[k].id \in DOMAIN list
                       THEN Detach(checks, monitoringProducts, checks[k].id)[k]
                       ELSE checks[k]]
    /\ initialized' = TRUE
    /\ loading' = Undef
    /\ UNCHANGED <<stored, alarms, firings, calls, monTabs, notifications, stopped>>

\* A stopMonitoring(id) call in flight when startMonitoring registers id
\* again: its return no longer leaves id stopped.
Restarted(call, id) ==
    IF call.op = "stop" /\ call.id = id THEN [call EXCEPT !.restarted = TRUE]
    ELSE call

\* startMonitoring(product, options) up to the await of saveMonitoringList.
StartMonitoring(product, options, ok) ==
    /\ MStep
    /\ Cardinality(calls) < MaxCalls
    /\ LET info == MonitoringInfo(product, options, now)
           call == [op |-> "start", id |-> product.id,
                    pc |-> IF ok THEN "saved" ELSE "failed",
                    interval |-> info.monitoring.interval, restarted |-> FALSE]
       IN /\ call \notin calls
          /\ monitoringProducts' = MapSet(monitoringProducts, product.id, info)
          /\ checks' = Detach(checks, monitoringProducts, product.id)
          /\ stored' = saveMonitoringList(monitoringProducts', ok)
          /\ calls' = {Restarted(c, product.id) : c \in calls} \cup {call}
          /\ stopped' = stopped \ {product.id}
    /\ UNCHANGED <<initialized, loading, alarms, firings, monTabs, notifications>>

\* stopMonitoring(productId) up to the await of chrome.alarms.clear; it
\* returns at once for a product that is not in the map.
StopMonitoring(productId) ==
    /\ MStep
    /\ Cardinality(calls) < MaxCalls
    /\ IF HasProduct(monitoringProducts, productId)
       THEN LET call == [op |-> "stop", id |-> productId, pc |-> "clearing",
                         interval |-> 0, restarted |-> FALSE]
            IN /\ call \notin calls
               /\ alarms' = [n \in DOMAIN alarms \ {AlarmName(productId)} |-> alarms[n]]
               /\ calls' = calls \cup {call}
               /\ UNCHANGED stopped
       ELSE /\ stopped' = stopped \cup {productId}
            /\ UNCHANGED <<alarms, calls>>
    /\ UNCHANGED <<monitoringProducts, initialized, loading, stored, firings,
                   checks, monTabs, notifications>>

\* stopMonitoring after chrome.alarms.clear: delete and saveMonitoringList.
StopDelete(id, ok) ==
    \E call \in calls :
    /\ MStep
    /\ call.id = id /\ call.op = "stop" /\ call.pc = "clearing"
    /\ monitoringProducts' = MapDelete(monitoringProducts, call.id)
    /\ checks' = Detach(checks, monitoringProducts, call.id)
    /\ stored' = saveMonitoringList(monitoringProducts', ok)
    /\ calls' = (calls \ {call})
                  \cup {[call EXCEPT !.pc = IF ok THEN "saving" ELSE "failed"]}
    /\ UNCHANGED <<initialized, loading, alarms, firings, monTabs, notifications,
                   stopped>>

\* updateMonitoringOptions(productId, options) up to the await of
\* saveMonitoringList; it returns at once for a product that is not in the map.
UpdateMonitoringOptions(productId, options, ok) ==
    /\ MStep
    /\ Cardinality(calls) < MaxCalls
    /\ IF HasProduct(monitoringProducts, productId)
       THEN LET call == [op |-> "update", id |-> productId,
                         pc |-> IF ok THEN "saved" ELSE "failed",
                         interval |-> Opt(options.interval, 0), restarted |-> FALSE]
            IN /\ call \notin calls
               /\ monitoringProducts' =
                     [monitoringProducts EXCEPT
                        ![productId].monitoring = AssignOptions(@, options)]
               /\ stored' = saveMonitoringList(monitoringProducts', ok)
               /\ calls' = calls \cup {call}
       ELSE UNCHANGED <<monitoringProducts, stored, calls>>
    /\ UNCHANGED <<initialized, loading, alarms, firings, checks, monTabs,
                   notifications, stopped>>

\* A call whose saveMonitoringList was rejected: the call rejects.
CallRejected(id) ==
    \E call \in calls :
    /\ MStep
    /\ call.id = id /\ call.pc = "failed"
    /\ calls' = calls \ {call}
    /\ UNCHANGED <<monitoringProducts, initialized, loading, stored, alarms,
                   firings, checks, monTabs, notifications, stopped>>

\* scheduleCheck: chrome.alarms.clear(alarmName).  updateMonitoringOptions
\* calls scheduleCheck only for a truthy options.interval.
ScheduleClear(id) ==
    \E call \in calls :
    /\ MStep
    /\ call.id = id /\ call.pc = "saved"
    /\ IF call.op = "update" /\ call.interval = 0
       THEN /\ calls' = calls \ {call}
            /\ UNCHANGED alarms
       ELSE /\ alarms' = [n \in DOMAIN alarms \ {AlarmName(call.id)} |-> alarms[n]]
            /\ calls' = (calls \ {call}) \cup {[call EXCEPT !.pc = "clearing"]}
    /\ UNCHANGED <<monitoringProducts, initialized, loading, stored, firings,
                   checks, monTabs, notifications, stopped>>

\* scheduleCheck: chrome.alarms.create(alarmName, {delay, period}).
ScheduleCreate(id) ==
    \E call \in calls :
    /\ MStep
    /\ call.id = id /\ call.op \in {"start", "update"} /\ call.pc = "clearing"
    /\ alarms' = [n \in DOMAIN alarms \cup {AlarmName(call.id)} |->
                    IF n = AlarmName(call.id) THEN call.interval ELSE alarms[n]]
    /\ calls' = (calls \ {call}) \cup {[call EXCEPT !.pc = "creating"]}
    /\ UNCHANGED <<monitoringProducts, initialized, loading, stored, firings,
                   checks, monTabs, notifications, stopped>>

\* scheduleCheck: chrome.alarms.create refuses an interval that is not
\* positive; the call rejects.
ScheduleCreateRejected(id) ==
    \E call \in calls :
    /\ MStep
    /\ call.id = id /\ call.op \in {"start", "update"} /\ call.pc = "clearing"
    /\ call.interval <= 0
    /\ calls' = calls \ {call}
    /\ UNCHANGED <<monitoringProducts, initialized, loading, stored, alarms,
                   firings, checks, monTabs, notifications, stopped>>

\* The last await of a call resolved: the call returns.
CallReturned(id) ==
    \E call \in calls :
    /\ MStep
    /\ call.id = id /\ call.pc \in {"creating", "saving"}
    /\ calls' = calls \ {call}
    /\ stopped' = IF call.op = "stop" /\ ~call.restarted
                  THEN stopped \cup {call.id} ELSE stopped
    /\ UNCHANGED <<monitoringProducts, initialized, loading, stored, alarms,
                   firings, checks, monTabs, notifications>>

\* An alarm goes off: its event is dispatched to the listeners.
AlarmFires(name) ==
    /\ MStep
    /\ name \in DOMAIN alarms /\ name \notin firings
    /\ firings' = firings \cup {name}
    /\ UNCHANGED <<monitoringProducts, initialized, loading, stored, alarms,
                   calls, checks, monTabs, notifications, stopped>>

\* The checkProduct executions started for productId, oldest first.
ChecksOf(productId) == SelectSeq(checks, LAMBDA c : c.id = productId)

\* Mutant: the listener starts a check only while no check is in flight.
OnAlarmSerial(name) ==
    /\ MStep
    /\ initialized
    /\ name \in firings
    /\ Len(ChecksOf(AlarmProductId(name))) < MaxChecks
    /\ firings' = firings \ {name}
    /\ IF ~StartsWithMonitor(name) THEN UNCHANGED checks
       ELSE LET productId == AlarmProductId(name) IN
            IF /\ CheckGuard(monitoringProducts, productId)
               /\ \A k \in DOMAIN checks : checks[k].pc = "over"
            THEN checks' = Append(checks, NewCheck(productId))
            ELSE checks' = Append(checks, CheckOver(productId, "skipped"))
    /\ UNCHANGED <<monitoringProducts, initialized, loading, stored, alarms,
                   calls, monTabs, notifications, stopped>>

\* The listener of setupAlarmListener runs checkProduct up to the await of
\* chrome.tabs.create, or to its early return.
OnAlarm(name) ==
    /\ MStep
    /\ initialized
    /\ name \in firings
    /\ Len(ChecksOf(AlarmProductId(name))) < MaxChecks
    /\ firings' = firings \ {name}
    /\ IF ~StartsWithMonitor(name) THEN UNCHANGED checks
       ELSE LET productId == AlarmProductId(name) IN
            IF CheckGuard(monitoringProducts, productId)
            THEN checks' = Append(checks, NewCheck(productId))
            ELSE checks' = Append(checks, CheckOver(productId, "skipped"))
    /\ UNCHANGED <<monitoringProducts, initialized, loading, stored, alarms,
                   calls, monTabs, notifications, stopped>>

\* Mutant: checkProduct puts the product it holds back into the map before
\* it saves the list.
TouchAndSaveResurrect(k, ok) ==
    /\ monitoringProducts' =
          IF checks[k].ref = <<>>
          THEN [monitoringProducts EXCEPT ![checks[k].id].monitoring.lastChecked = now]
          ELSE MapSet(monitoringProducts, checks[k].id,
                      [checks[k].ref[1] EXCEPT !.monitoring.lastChecked = now])
    /\ stored' = saveMonitoringList(monitoringProducts', ok)

\* product.monitoring.lastChecked = Date.now() on the object checkProduct
\* holds, then saveMonitoringList().
TouchAndSave(k, ok) ==
    /\ monitoringProducts' =
          IF checks[k].ref = <<>>
          THEN [monitoringProducts EXCEPT ![checks[k].id].monitoring.lastChecked = now]
          ELSE monitoringProducts
    /\ stored' = saveMonitoringList(monitoringProducts', ok)

\* chrome.tabs.create resolved: the page is open, the 3 s timer is set, then
\* lastChecked and saveMonitoringList.
CheckCreateResolved(k, ok) ==
    /\ MStep
    /\ CheckAt(k, "create")
    /\ TouchAndSave(k, ok)
    /\ monTabs' = monTabs \cup {FreshMonTab}
    /\ checks' = [checks EXCEPT ![k].pc = "timer", ![k].tab = FreshMonTab,
                                ![k].ref = <<>>]
    /\ UNCHANGED <<initialized, loading, alarms, firings, calls, notifications,
                   stopped>>

\* Mutant: a check whose page cannot be opened gives the product up and
\* clears its alarm.
CheckCreateRejectedGivesUp(k, ok) ==
    /\ MStep
    /\ CheckAt(k, "create")
    /\ TouchAndSave(k, ok)
    /\ alarms' = [n \in DOMAIN alarms \ {AlarmName(checks[k].id)} |-> alarms[n]]
    /\ checks' = [checks EXCEPT ![k] = CheckOver(checks[k].id, "failed")]
    /\ UNCHANGED <<initialized, loading, firings, calls, monTabs,
                   notifications, stopped>>

\* chrome.tabs.create rejected: logged, then lastChecked and saveMonitoringList.
CheckCreateRejected(k, ok) ==
    /\ MStep
    /\ CheckAt(k, "create")
    /\ TouchAndSave(k, ok)
    /\ checks' = [checks EXCEPT ![k] = CheckOver(checks[k].id, "failed")]
    /\ UNCHANGED <<initialized, loading, alarms, firings, calls, monTabs,
                   notifications, stopped>>

\* The 3 s timer fires: the parseProduct request is sent.
CheckTimer(k) ==
    /\ MStep
    /\ CheckAt(k, "timer")
    /\ checks' = [checks EXCEPT ![k].pc = "parse"]
    /\ UNCHANGED <<monitoringProducts, initialized, loading, stored, alarms,
                   firings, calls, monTabs, notifications, stopped>>

\* Mutant: the timer callback ends without closing the page.
FinishCheckLeavesPage(k, outcome) ==
    /\ monTabs' = monTabs
    /\ checks' = [checks EXCEPT ![k] = CheckOver(checks[k].id, outcome)]

\* The end of the timer callback: finally { chrome.tabs.remove(tab.id) }.
FinishCheck(k, outcome) ==
    /\ monTabs' = monTabs \ {checks[k].tab}
    /\ checks' = [checks EXCEPT ![k] = CheckOver(checks[k].id, outcome)]

\* The page replied: handleProductUpdate up to the await of
\* saveMonitoringList, or to its return.
ParseResolved(k, reply, ok) ==
    /\ MStep
    /\ CheckAt(k, "parse")
    /\ LET id == checks[k].id IN
       IF ~reply.success
       THEN /\ FinishCheck(k, "failed")
            /\ UNCHANGED <<monitoringProducts, stored>>
       ELSE IF ~HasProduct(monitoringProducts, id)
       THEN /\ FinishCheck(k, "unregistered")
            /\ UNCHANGED <<monitoringProducts, stored>>
       ELSE LET product == monitoringProducts[id]
                changes == DetectChanges(product, reply.product)
            IN IF changes.price \/ changes.stock
               THEN /\ monitoringProducts' =
                          [monitoringProducts EXCEPT
                             ![id] = ApplyChanges(product, reply.product, changes, now)]
                    /\ stored' = saveMonitoringList(monitoringProducts', ok)
                    /\ checks' = [checks EXCEPT
                                    ![k].pc = "saving", ![k].ref = <<>>,
                                    ![k].changes = changes, ![k].saveOk = ok,
                                    ![k].prev = [price |-> product.monitoring.lastPrice,
                                                 stock |-> product.monitoring.lastStock],
                                    ![k].seen = [price |-> reply.product.price,
                                                 stock |-> OrInStock(reply.product.stock)]]
                    /\ UNCHANGED monTabs
               ELSE /\ FinishCheck(k, "unchanged")
                    /\ UNCHANGED <<monitoringProducts, stored>>
    /\ UNCHANGED <<initialized, loading, alarms, firings, calls, notifications,
                   stopped>>

\* The parseProduct request failed: logged, the page is closed.
ParseRejected(k) ==
    /\ MStep
    /\ CheckAt(k, "parse")
    /\ FinishCheck(k, "failed")
    /\ UNCHANGED <<monitoringProducts, initialized, loading, stored, alarms,
                   firings, calls, notifications, stopped>>

\* saveMonitoringList of handleProductUpdate resolved: sendNotification up
\* to the await of chrome.notifications.create, or to its return.
UpdateSaveResolved(k) ==
    /\ MStep
    /\ CheckAt(k, "saving") /\ checks[k].saveOk
    /\ LET message == ComposeMessage(HeldProduct(k), checks[k].changes) IN
       IF message = EmptyMessage
       THEN /\ FinishCheck(k, "silent")
            /\ UNCHANGED notifications
       ELSE /\ notifications' =
                  Append(notifications, [id |-> HeldProduct(k).id, check |-> k,
                                         message |-> message])
            /\ checks' = [checks EXCEPT ![k].pc = "notifying"]
            /\ UNCHANGED monTabs
    /\ UNCHANGED <<monitoringProducts, initialized, loading, stored, alarms,
                   firings, calls, stopped>>

\* saveMonitoringList of handleProductUpdate rejected: caught by the timer
\* callback, the page is closed.
UpdateSaveRejected(k) ==
    /\ MStep
    /\ CheckAt(k, "saving") /\ ~checks[k].saveOk
    /\ FinishCheck(k, "failed")
    /\ UNCHANGED <<monitoringProducts, initialized, loading, stored, alarms,
                   firings, calls, notifications, stopped>>

\* chrome.notifications.create resolved: the page is closed.
NotifyDone(k) ==
    /\ MStep
    /\ CheckAt(k, "notifying")
    /\ FinishCheck(k, "notified")
    /\ UNCHANGED <<monitoringProducts, initialized, loading, stored, alarms,
                   firings, calls, notifications, stopped>>

\* A step of execution k of checkProduct, when it is a check of productId:
\* one of its awaited requests settles, or its timer fires.
CheckStepOf(productId, k, Replies) ==
    /\ k \in DOMAIN checks
    /\ checks[k].id = productId
    /\ \/ \E ok \in BOOLEAN : CheckCreateResolved(k, ok) \/ CheckCreateRejected(k, ok)
       \/ CheckTimer(k)
       \/ \E reply \in Replies, ok \in BOOLEAN : ParseResolved(k, reply, ok)
       \/ ParseRejected(k)
       \/ UpdateSaveResolved(k)
       \/ UpdateSaveRejected(k)
       \/ NotifyDone(k)

\* The service after new MonitoringService() and initialize() up to its
\* await of the read of the stored list, over the list and the alarms an
\* earlier run of the worker left.
InitService(list, alarmsLeft, t) ==
    /\ monitoringProducts = EmptyMap
    /\ initialized = FALSE
    /\ loading = Some(list)
    /\ stored = list
    /\ alarms = alarmsLeft
    /\ firings = {}
    /\ calls = {}
    /\ checks = <<>>
    /\ monTabs = {}
    /\ notifications = <<>>
    /\ stopped = {}
    /\ now = t

\* The service of a fresh installation: nothing stored, no alarm.
InitMonitor == InitService(EmptyMap, EmptyMap, 0)

\* The positions of the checkProduct executions in checks.
CheckIds == 1..MaxChecks

\* The alarms of the products Ids go off and the listener handles them.
NextAlarms(Ids) ==
    \E name \in {AlarmName(id) : id \in Ids} :
        \/ AlarmFires(name)
        \/ OnAlarm(name)

\* The steps of the checkProduct executions at the positions Slots of
\* checks, for the replies the pages give.
NextCheckSteps(Slots, Replies) ==
    \/ \E k \in Slots, ok \in BOOLEAN :
         \/ CheckCreateResolved(k, ok)
         \/ CheckCreateRejected(k, ok)
    \/ \E k \in Slots :
         \/ CheckTimer(k)
         \/ ParseRejected(k)
         \/ UpdateSaveResolved(k)
         \/ UpdateSaveRejected(k)
         \/ NotifyDone(k)
    \/ \E k \in Slots, reply \in Replies, ok \in BOOLEAN :
         ParseResolved(k, reply, ok)

\* The next-state relation of the checks of the products ProductIds.
NextChecks(Replies) ==
    \/ MLoadResolved
    \/ NextAlarms(ProductIds)
    \/ NextCheckSteps(CheckIds, Replies)

\* startMonitoring calls, for the options the callers pass.
NextStart(StartOptions) ==
    \/ \E product \in ProductSamples, options \in StartOptions, ok \in BOOLEAN :
         StartMonitoring(product, options, ok)
    \/ \E id \in ProductIds :
         \/ CallRejected(id)
         \/ ScheduleClear(id)
         \/ ScheduleCreate(id)
         \/ CallReturned(id)

\* stopMonitoring and updateMonitoringOptions calls.
NextStopUpdate(UpdateOptions) ==
    \/ \E id \in ProductIds : StopMonitoring(id)
    \/ \E id \in ProductIds, options \in UpdateOptions, ok \in BOOLEAN :
         UpdateMonitoringOptions(id, options, ok)
    \/ \E id \in ProductIds, ok \in BOOLEAN : StopDelete(id, ok)

NextMonitor ==
    \/ \E id \in ProductIds : ScheduleCreateRejected(id)
    \/ NextChecks(ParseReplies)
    \/ NextStart(StartOptionSamples)
    \/ NextStopUpdate(UpdateOptionSamples)


(***************************************************************************)
(* Product storage and the start-up of the worker                          *)
(*   (src/background/service-worker.js)                                    *)
(*                                                                         *)
(* chrome.storage.local serves its requests in the order they are made:    *)
(* a get returns the value stored when it was requested, a set is applied  *)
(* when it is requested; the handler goes on when the awaited request has  *)
(* settled.                                                                *)
(***************************************************************************)
\* handleSaveProduct executions modelled per start of the worker.
MaxSaves == 2

\* Product data sent with 'saveProduct': two pages, one of them collected
\* twice under two names.
ProductData ==
    {[url |-> LinkA, name |-> "first"],
     [url |-> LinkA, name |-> "renamed"],
     [url |-> LinkB, name |-> "second"]}

\* What initializeStorage writes.
DefaultSettings ==
    [autoCollect |-> FALSE, rateLimitDelay |-> 2000, maxConcurrent |-> 1,
     notifications |-> TRUE]
ZeroStats == [total |-> 0, today |-> 0]

\* products.findIndex(p => p.url === url), from 1; 0 when there is none.
findIndex(list, url) ==
    IF \E i \in DOMAIN list : list[i].url = url
    THEN CHOOSE i \in DOMAIN list :
            list[i].url = url /\ \A j \in 1..(i - 1) : list[j].url # url
    ELSE 0

\* The list handleSaveProduct writes: the entry with the URL of the data is
\* overwritten by the data, or the data are pushed.
Upsert(list, data) ==
    LET existingIndex == findIndex(list, data.url) IN
    IF existingIndex >= 1
    THEN [list EXCEPT ![existingIndex] = [url |-> data.url, name |-> data.name]]
    ELSE Append(list, [url |-> data.url, name |-> data.name])

\* A handleSaveProduct execution at its await of chrome.storage.local.get:
\* seen is the list the get returns, read what updateStats and getSetting
\* read later, response what sendResponse was called with.
NewSave(data) ==
    [data |-> data, pc |-> "get", seen |-> products, read |-> <<>>,
     notify |-> FALSE, response |-> "none", count |-> 0]

PStep ==
    /\ engine = "store"
    /\ UNCHANGED <<engine, bvars, svars, cvars, avars>>

SaveAt(k, pc) == k \in DOMAIN saves /\ saves[k].pc = pc

\* onMessage 'saveProduct', or the call of processScrapingQueue:
\* handleSaveProduct up to its await of the products read.  No
\* MarginAnalysisService is defined in the worker, the analysis is skipped.
SaveProduct(data) ==
    /\ PStep
    /\ Len(saves) < MaxSaves
    /\ saves' = Append(saves, NewSave(data))
    /\ UNCHANGED <<products, settings, stats, boot, mvars>>

\* The products read resolved: the list is updated and written.
SaveGetResolved(k, ok) ==
    /\ PStep
    /\ SaveAt(k, "get")
    /\ LET list == Upsert(saves[k].seen, saves[k].data) IN
       /\ products' = IF ok THEN list ELSE products
       /\ saves' = [saves EXCEPT ![k].pc = IF ok THEN "set" ELSE "rejected",
                                 ![k].seen = list]
    /\ UNCHANGED <<settings, stats, boot, mvars>>

\* The products write resolved: updateStats() reads the products.
SaveSetResolved(k) ==
    /\ PStep
    /\ SaveAt(k, "set")
    /\ saves' = [saves EXCEPT ![k].pc = "statsGet", ![k].read = products]
    /\ UNCHANGED <<products, settings, stats, boot, mvars>>

\* The read of updateStats resolved: the stats are counted and written.
StatsGetResolved(k, ok) ==
    /\ PStep
    /\ SaveAt(k, "statsGet")
    /\ stats' = IF ok THEN [total |-> Len(saves[k].read), today |-> Len(saves[k].read)]
                ELSE stats
    /\ saves' = [saves EXCEPT ![k].pc = IF ok THEN "statsSet" ELSE "rejected"]
    /\ UNCHANGED <<products, settings, boot, mvars>>

\* The stats write resolved: getSetting('settings') is awaited.
StatsSetResolved(k) ==
    /\ PStep
    /\ SaveAt(k, "statsSet")
    /\ saves' = [saves EXCEPT ![k].pc = "settings",
                              ![k].notify = settings.notifications]
    /\ UNCHANGED <<products, settings, stats, boot, mvars>>

\* getSetting resolved: the notification when settings.notifications, then
\* sendResponse({success: true, count: products.length}).
SettingsResolved(k) ==
    /\ PStep
    /\ SaveAt(k, "settings")
    /\ saves' = [saves EXCEPT ![k].pc = "done", ![k].response = "success",
                              ![k].count = Len(saves[k].seen)]
    /\ UNCHANGED <<products, settings, stats, boot, mvars>>

\* An awaited request of handleSaveProduct rejected: catch, and
\* sendResponse({success: false, error}).
SaveRejected(k) ==
    /\ PStep
    /\ k \in DOMAIN saves
    /\ saves[k].pc \in {"get", "rejected", "statsGet", "settings"}
    /\ saves' = [saves EXCEPT ![k].pc = "done", ![k].response = "failure"]
    /\ UNCHANGED <<products, settings, stats, boot, mvars>>

\* The browser stopped the worker and starts it again: the executions in
\* flight and the service are gone, the script runs from its top and
\* initializeStorage() writes products, settings and stats.
WorkerStarts(ok) ==
    /\ PStep
    /\ products' = IF ok THEN <<>> ELSE products
    /\ settings' = IF ok THEN DefaultSettings ELSE settings
    /\ stats' = IF ok THEN ZeroStats ELSE stats
    /\ boot' = IF ok THEN "initStorage" ELSE "initFailed"
    /\ saves' = <<>>
    /\ monitoringProducts' = EmptyMap
    /\ initialized' = FALSE
    /\ loading' = Undef
    /\ calls' = {} /\ checks' = <<>> /\ firings' = {} /\ stopped' = {}
    /\ UNCHANGED <<stored, alarms, monTabs, notifications, now>>

\* The write of initializeStorage resolved: initializeMonitoring() makes the
\* service and initialize() awaits its read of the stored list.
StorageInitialized ==
    /\ PStep
    /\ boot = "initStorage"
    /\ boot' = "monitoring"
    /\ loading' = Some(stored)
    /\ UNCHANGED <<products, settings, stats, saves, monitoringProducts,
                   initialized, stored, alarms, firings, calls, checks, monTabs,
                   notifications, stopped, now>>

\* The write of initializeStorage rejected: the .then() is not run, the
\* monitoring service is never made.
StorageInitRejected ==
    /\ PStep
    /\ boot = "initFailed"
    /\ boot' = "down"
    /\ UNCHANGED <<products, settings, stats, saves, mvars>>

\* The worker at rest for the other engines.
InitStore ==
    /\ products = <<>>
    /\ settings = DefaultSettings
    /\ stats = ZeroStats
    /\ saves = <<>>
    /\ boot = "monitoring"

SaveIds == 1..MaxSaves

\* The steps of the handleSaveProduct executions.
NextSaves ==
    \/ \E data \in ProductData : SaveProduct(data)
    \/ \E k \in SaveIds, ok \in BOOLEAN :
         \/ SaveGetResolved(k, ok)
         \/ StatsGetResolved(k, ok)
    \/ \E k \in SaveIds :
         \/ SaveSetResolved(k)
         \/ StatsSetResolved(k)
         \/ SettingsResolved(k)
         \/ SaveRejected(k)

\* The start-up of the worker.
NextStartup ==
    \/ StorageInitialized
    \/ StorageInitRejected
    \/ MLoadResolved

NextStore ==
    \/ NextSaves
    \/ NextStartup
    \/ \E ok \in BOOLEAN : WorkerStarts(ok)

(***************************************************************************)
(* initializeSupabase (src/unnamed/part_001)                               *)
(***************************************************************************)
\* initializeSupabase calls modelled.
MaxInits == 4

\* let supabaseClient = null
NoClient == 0

CStep ==
    /\ engine = "supabase"
    /\ UNCHANGED <<engine, bvars, svars, mvars, pvars, avars>>

\* An initializeSupabase call that returned `result` (NoClient for null);
\* state is what the initialize() of the returned client had come to then.
Returned(caller, result, state) ==
    [caller |-> caller, pc |-> "returned", client |-> NoClient,
     result |-> result, state |-> state]

\* initializeSupabase() called by `caller` (the start of the worker,
\* onInstalled, or a message handler), up to its return or to its await of
\* supabaseClient.initialize().
InitializeSupabase(caller) ==
    /\ CStep
    /\ Len(inits) < MaxInits
    /\ IF supabaseClient # NoClient
       THEN /\ inits' = Append(inits, Returned(caller, supabaseClient,
                                            clients[supabaseClient]))
            /\ UNCHANGED <<supabaseClient, clients>>
       ELSE /\ clients' = Append(clients, "pending")
            /\ supabaseClient' = Len(clients) + 1
            /\ inits' = Append(inits, [caller |-> caller, pc |-> "initialize",
                                       client |-> Len(clients) + 1,
                                       result |-> NoClient, state |-> "pending"])

\* supabaseClient.initialize() resolved: return supabaseClient.
InitializeResolved(k) ==
    /\ CStep
    /\ k \in DOMAIN inits /\ inits[k].pc = "initialize"
    /\ clients' = [clients EXCEPT ![inits[k].client] = "ready"]
    /\ inits' = [inits EXCEPT ![k] = Returned(inits[k].caller, supabaseClient,
                                              clients'[supabaseClient])]
    /\ UNCHANGED supabaseClient

\* supabaseClient.initialize() rejected: caught, return null.
InitializeRejected(k) ==
    /\ CStep
    /\ k \in DOMAIN inits /\ inits[k].pc = "initialize"
    /\ clients' = [clients EXCEPT ![inits[k].client] = "failed"]
    /\ inits' = [inits EXCEPT ![k] = Returned(inits[k].caller, NoClient, "failed")]
    /\ UNCHANGED supabaseClient

\* The worker at rest for the other engines: no call was made.
InitSupabase ==
    /\ supabaseClient = NoClient
    /\ clients = <<>>
    /\ inits = <<>>

Callers == {"start", "onInstalled", "handleSaveProduct", "handleGetStats"}
InitIds == 1..MaxInits

NextSupabase ==
    \/ \E caller \in Callers : InitializeSupabase(caller)
    \/ \E k \in InitIds :
         \/ InitializeResolved(k)
         \/ InitializeRejected(k)

(***************************************************************************)
(* ApiManager.bulkRegister (src/unnamed/part_000)                          *)
(***************************************************************************)
\* if (logs.length > 1000)
LogCap == 1000
\* Products passed to one bulkRegister call.
MaxProducts == 2

\* Products to register, and the lists of them passed to bulkRegister.
BulkProducts == {[id |-> 1, name |-> "a"], [id |-> 2, name |-> "b"]}
BulkLists ==
    UNION {[1..n -> BulkProducts] : n \in 0..MaxProducts}

\* What api.registerProduct resolves with: the 'success' of the object
\* registerProduct returns is the one of the result when it has one.
ApiResults == {[id |-> "r1", success |-> Undef], [id |-> "r2", success |-> Some(FALSE)]}

AStep ==
    /\ engine = "api"
    /\ UNCHANGED <<engine, bvars, svars, mvars, pvars, cvars, platformApi,
                   credentials>>

\* bulkRegister before it is called.
IdleBulk ==
    [pc |-> "idle", products |-> <<>>, i |-> 0,
     results |-> [total |-> 0, success |-> 0, failed |-> 0, details |-> <<>>],
     status |-> "", error |-> "", result |-> Undef, seen |-> <<>>]

\* logs.push(log), then splice(0, logs.length - 1000) over the cap.
PushLog(logs, log) ==
    LET all == Append(logs, log) IN
    IF Len(all) > LogCap THEN SubSeq(all, Len(all) - LogCap + 1, Len(all)) ELSE all

\* The log entry saveRegistrationLog is called with; the clock counts on
\* from the newest entry it follows.
LogEntry(b, logs) ==
    [productId |-> b.products[b.i].id, status |-> b.status,
     timestamp |-> IF logs = <<>> THEN 1 ELSE logs[Len(logs)].timestamp + 1]

\* The loop of bulkRegister goes on to product i + 1: registerProduct is
\* called and throws for a platform without API or credentials, or awaits
\* api.initialize(credentials); after the last product bulkRegister returns.
NextProduct(b) ==
    IF b.i + 1 > Len(b.products) THEN [b EXCEPT !.pc = "returned", !.i = b.i + 1]
    ELSE [b EXCEPT !.i = b.i + 1,
                   !.pc = IF platformApi /\ credentials THEN "initialize" ELSE "raised",
                   !.status = "", !.error = "", !.result = Undef, !.seen = <<>>]

\* The entry of results.details for the product in hand; error is
\* error.message, "" for an entry without it.
Detail(b, success) ==
    [productId |-> b.products[b.i].id, productName |-> b.products[b.i].name,
     success |-> success, error |-> IF success THEN "" ELSE b.error]

\* The error an awaited request of registerProduct or saveRegistrationLog
\* was rejected with is in hand.
Caught(b, error) == [b EXCEPT !.error = error]

\* Mutant: the catch of bulkRegister counts the failure and pushes no entry.
BulkCatchNoDetail(b) ==
    NextProduct([b EXCEPT !.results.failed = @ + 1])

\* catch (error) of bulkRegister: results.failed++, details.push, and on to
\* the next product without the sleep.
BulkCatch(b) ==
    NextProduct([b EXCEPT !.results.failed = @ + 1,
                          !.results.details = Append(@, Detail(b, FALSE))])

\* registerProduct returned: the result is counted, details.push, and
\* sleep(options.delay || 1000) is awaited.
BulkCount(b, success) ==
    [b EXCEPT !.results.success = IF success THEN @ + 1 ELSE @,
              !.results.failed = IF success THEN @ ELSE @ + 1,
              !.results.details = Append(@, Detail(b, success)),
              !.pc = "sleep"]

\* saveRegistrationLog(log) up to its await of the logs read.
SaveLog(b, status) ==
    [b EXCEPT !.pc = "logGet", !.status = status, !.seen = registrationLogs]

\* bulkRegister(platform, products, options) up to its first await.
BulkRegister(list) ==
    /\ AStep
    /\ bulk.pc = "idle"
    /\ bulk' = NextProduct([bulk EXCEPT
                               !.products = list, !.results.total = Len(list)])
    /\ UNCHANGED registrationLogs

\* The rejection of registerProduct reaches bulkRegister.
RegisterRaised ==
    /\ AStep
    /\ bulk.pc = "raised"
    /\ bulk' = BulkCatch(Caught(bulk, IF platformApi THEN "NoCredentials"
                                       ELSE "ApiNotFound"))
    /\ UNCHANGED registrationLogs

\* api.initialize / mapProductData resolved.
ApiStepResolved ==
    /\ AStep
    /\ bulk.pc \in {"initialize", "map"}
    /\ bulk' = [bulk EXCEPT !.pc = IF bulk.pc = "initialize" THEN "map" ELSE "register"]
    /\ UNCHANGED registrationLogs

\* api.registerProduct resolved with result: the success log is saved.
ApiRegisterResolved(result) ==
    /\ AStep
    /\ bulk.pc = "register"
    /\ bulk' = SaveLog([bulk EXCEPT !.result = Some(result)], "success")
    /\ UNCHANGED registrationLogs

\* api.initialize, mapProductData or api.registerProduct rejected: caught in
\* registerProduct, the failure log is saved.
ApiStepRejected ==
    /\ AStep
    /\ bulk.pc \in {"initialize", "map", "register"}
    /\ bulk' = SaveLog(Caught(bulk, "ApiError"), "failed")
    /\ UNCHANGED registrationLogs

\* The logs read of saveRegistrationLog resolved: push, cap, and write.
LogGetResolved(ok) ==
    /\ AStep
    /\ bulk.pc = "logGet"
    /\ registrationLogs' =
          IF ok THEN PushLog(bulk.seen, LogEntry(bulk, bulk.seen)) ELSE registrationLogs
    /\ bulk' = [bulk EXCEPT !.pc = IF ok THEN "logSet" ELSE "logRejected"]

\* The logs write resolved: registerProduct returns {success: true,
\* ...result} after the success log, {success: false, error} after the
\* failure log.
LogSetResolved ==
    /\ AStep
    /\ bulk.pc = "logSet"
    /\ bulk' = BulkCount(bulk,
                   /\ bulk.status = "success"
                   /\ Opt(bulk.result[1].success, TRUE))
    /\ UNCHANGED registrationLogs

\* The logs read or write rejected: for the success log the catch of
\* registerProduct saves the failure log; for the failure log the rejection
\* leaves registerProduct and reaches the catch of bulkRegister.
LogRejected ==
    /\ AStep
    /\ bulk.pc \in {"logGet", "logRejected"}
    /\ bulk' = IF bulk.status = "success"
               THEN SaveLog(Caught(bulk, "StorageError"), "failed")
               ELSE BulkCatch(Caught(bulk, "StorageError"))
    /\ UNCHANGED registrationLogs

\* sleep over: the next product.
BulkSleepDone ==
    /\ AStep
    /\ bulk.pc = "sleep"
    /\ bulk' = NextProduct(bulk)
    /\ UNCHANGED registrationLogs

\* Registration logs of earlier calls: n entries written at times 1..n.
EarlierLogs(n) ==
    [i \in 1..n |-> [productId |-> 0, status |-> "success", timestamp |-> i]]

\* The ApiManager at rest for the other engines.
InitApi ==
    /\ platformApi = FALSE
    /\ credentials = FALSE
    /\ bulk = IdleBulk
    /\ registrationLogs = <<>>

NextApi ==
    \/ \E list \in BulkLists : BulkRegister(list)
    \/ RegisterRaised
    \/ ApiStepResolved
    \/ ApiStepRejected
    \/ \E result \in ApiResults : ApiRegisterResolved(result)
    \/ \E ok \in BOOLEAN : LogGetResolved(ok)
    \/ LogSetResolved
    \/ LogRejected
    \/ BulkSleepDone
(***************************************************************************)
(*                               CLAIMS                                    *)
(***************************************************************************)
Last(s) == s[Len(s)]

\* Positions of handleBatchCollect inside the loop body of an item.
ItemPcs ==
    {"update", "load", "settle", "send", "inject", "injectWait", "backoff",
     "itemDelay"}

\* The updateProgress messages among the messages sent to the page.
ProgressMsgs ==
    SelectSeqOf(pageMsgs, {m \in {pageMsgs[k] : k \in DOMAIN pageMsgs} :
                              m.action = "updateProgress"})

\* A store-scraping run that sent scrapingComplete, with no stop and no
\* other start since it began.
CleanRunCompleted ==
    /\ runClean
    /\ pageMsgs # <<>>
    /\ Last(pageMsgs).action = "scrapingComplete"

\* C1: in every state of a handleBatchCollect run success + failed <= total;
\* a success response carries success + failed = total = the number of
\* product tabs, and one errors entry, with its reason, per failed item.
C1_BatchCounts ==
    \A r \in RunIds :
        LET res == runs[r].results IN
        /\ res.success + res.failed <= res.total
        /\ Len(res.errors) = res.failed
        /\ \A k \in DOMAIN runs[r].responses :
              LET resp == runs[r].responses[k] IN
              resp.success =>
                /\ resp.results.success + resp.results.failed = resp.results.total
                /\ resp.results.total = Len(runs[r].productTabs)
                /\ Len(resp.results.errors) = resp.results.failed
                /\ \A e \in DOMAIN resp.results.errors :
                      resp.results.errors[e].error \in SendErrors

\* C1 witness: three product tabs, the second failed after all retries:
\* {total: 3, success: 2, failed: 1} with the reason of the second tab.
C1_Witness ==
    \E r \in RunIds :
        /\ runs[r].pc = "done"
        /\ runs[r].responses # <<>>
        /\ LET resp == runs[r].responses[1] IN
           /\ resp.success
           /\ resp.results.total = 3
           /\ resp.results.success = 2
           /\ resp.results.failed = 1
           /\ resp.results.errors = <<[tab |-> UrlTmall, error |-> ErrConnection]>>

\* Progress of a completed handleBatchCollect run: total messages, current
\* = 1, 2, ..., total.
BatchProgressExact ==
    \A r \in RunIds :
        (runs[r].responses # <<>> /\ runs[r].responses[1].success) =>
            /\ Len(runs[r].progress) = runs[r].results.total
            /\ \A k \in DOMAIN runs[r].progress :
                  /\ runs[r].progress[k].current = k
                  /\ runs[r].progress[k].total = runs[r].results.total

\* C2 as amended: a completed handleBatchCollect run sends exactly total
\* batchProgress messages with current = 1..total; a store-scraping run that
\* completes with no stop and no other start during it sends total + 1
\* updateProgress messages, current = 0, 1, ..., total (the initial message
\* of handleStoreScraping, then one per item): strictly increasing, the last
\* with current = total.
C2_ProgressAmended ==
    /\ BatchProgressExact
    /\ CleanRunCompleted =>
         /\ ProgressMsgs # <<>>
         /\ Len(ProgressMsgs) = ProgressMsgs[1].total + 1
         /\ \A k \in DOMAIN ProgressMsgs :
               /\ ProgressMsgs[k].current = k - 1
               /\ ProgressMsgs[k].total = ProgressMsgs[1].total
         /\ Last(ProgressMsgs).current = Last(ProgressMsgs).total

\* C2 witness: a store-scraping run of two links completed undisturbed.
C2_Witness ==
    /\ CleanRunCompleted
    /\ Len(ProgressMsgs) = 3
    /\ Last(ProgressMsgs) = [action |-> "updateProgress", current |-> 2, total |-> 2]

\* C2 as stated: exactly total invocations per completed run, for the batch
\* run and for the store-scraping run.
C2_ProgressExactlyTotal ==
    /\ BatchProgressExact
    /\ CleanRunCompleted =>
         /\ ProgressMsgs # <<>>
         /\ Len(ProgressMsgs) = Last(ProgressMsgs).total
         /\ \A k \in 2..Len(ProgressMsgs) :
               ProgressMsgs[k].current > ProgressMsgs[k - 1].current
         /\ Last(ProgressMsgs).current = Last(ProgressMsgs).total

\* C3 as stated: never two handleBatchCollect runs each with an item in
\* progress.
C3_SingleFlight ==
    Cardinality({r \in RunIds : runs[r].pc \in ItemPcs}) <= 1

\* Positions of a processScrapingQueue chain between taking a target off the
\* queue and calling processScrapingQueue again.
ChainItemPcs ==
    {"create", "load", "settle", "collect", "save", "remove", "getSetting",
     "rateSleep"}

\* C4 as stated: never more than one processScrapingQueue chain working on
\* a target.
C4_OneChain ==
    Cardinality({c \in DOMAIN chains : chains[c].pc \in ChainItemPcs}) <= 1


\* The alarm names of the sample products.
AlarmNames == {AlarmName(id) : id \in ProductIds}

\* A firing the service must skip: the id of the alarm was stopped and not
\* started since, or its product is disabled.
StaleFiring(name) ==
    LET id == AlarmProductId(name) IN
    \/ id \in stopped
    \/ /\ HasProduct(monitoringProducts, id)
       /\ ~monitoringProducts[id].monitoring.enabled

\* C5: once stopMonitoring(id) has returned, the listener run for a firing
\* of monitor_<id>, and the listener run for a firing of a disabled product,
\* start no check (so no page is opened and no notification is created) and
\* leave the map and the stored list as they are; id is not put back.
C5_StaleFiringSkipped ==
    [][\A name \in AlarmNames :
          (OnAlarm(name) /\ StaleFiring(name)) =>
             /\ UNCHANGED <<monitoringProducts, stored, monTabs, notifications>>
             /\ Last(checks').pc = "over"
             /\ Last(checks').outcome = "skipped"]_vars

\* C5 witness: a firing of monitor_<id> was skipped after stopMonitoring(id)
\* returned; the map and the stored list are empty, no page is open.
C5_Witness ==
    \E k \in DOMAIN checks :
        /\ checks[k].outcome = "skipped"
        /\ checks[k].id \in stopped
        /\ ~HasProduct(monitoringProducts, checks[k].id)
        /\ ~HasProduct(stored, checks[k].id)
        /\ monTabs = {}
        /\ notifications = <<>>

\* C6: a reply with success whose price is lastPrice and whose stock is
\* lastStock leaves the product (histories, lastPrice, lastStock) and the
\* notifications as they are, and ends the check.
C6_NoChangeNoEffect ==
    [][\A k \in CheckIds, reply \in ParseReplies, ok \in BOOLEAN :
          (/\ ParseResolved(k, reply, ok)
           /\ reply.success
           /\ HasProduct(monitoringProducts, checks[k].id)
           /\ reply.product.price =
                 monitoringProducts[checks[k].id].monitoring.lastPrice
           /\ OrInStock(reply.product.stock) =
                 monitoringProducts[checks[k].id].monitoring.lastStock)
          => /\ UNCHANGED <<monitoringProducts, notifications>>
             /\ checks'[k].pc = "over"]_vars

\* C6 witness: a check of a registered product ended with nothing changed.
C6_Witness ==
    \E k \in DOMAIN checks :
        /\ checks[k].outcome = "unchanged"
        /\ HasProduct(monitoringProducts, checks[k].id)
        /\ Len(monitoringProducts[checks[k].id].history.price) = 1
        /\ Len(monitoringProducts[checks[k].id].history.stock) = 1
        /\ notifications = <<>>

\* Check k detected a price change that calls for a price line.
PriceQualifies(k) ==
    /\ HeldProduct(k).monitoring.priceAlert
    /\ checks[k].seen.price # checks[k].prev.price
    /\ Abs(checks[k].seen.price - checks[k].prev.price)
          >= HeldProduct(k).monitoring.priceThreshold
\* Check k detected a stock change that calls for a stock line.
StockQualifies(k) ==
    /\ HeldProduct(k).monitoring.stockAlert
    /\ checks[k].seen.stock # checks[k].prev.stock
\* Check k goes on from the await of the store write of handleProductUpdate.
LeavesSaving(k) == CheckAt(k, "saving") /\ checks'[k].pc # "saving"
\* This step creates exactly one notification, for check k.
OneNotification(k) ==
    /\ Len(notifications') = Len(notifications) + 1
    /\ SubSeq(notifications', 1, Len(notifications)) = notifications
    /\ Last(notifications').check = k

\* C7 as stated: a check of a product with priceAlert that found
\* |newPrice - lastPrice| >= priceThreshold, newPrice # lastPrice, creates
\* exactly one notification, with the signed delta newPrice - lastPrice.
C7_PriceAlertNotifies ==
    [][\A k \in CheckIds :
          (LeavesSaving(k) /\ PriceQualifies(k)) =>
             /\ OneNotification(k)
             /\ Last(notifications').message.price # <<>>
             /\ LET line == Last(notifications').message.price[1]
                    delta == checks[k].seen.price - checks[k].prev.price
                IN /\ line.amount = delta
                   /\ line.plus = (delta > 0)]_vars

\* The price part of C7 where the store write resolved.
C7_AfterWrite ==
    [][\A k \in CheckIds :
          (LeavesSaving(k) /\ PriceQualifies(k) /\ checks[k].saveOk) =>
             /\ OneNotification(k)
             /\ Last(notifications').message.price # <<>>
             /\ Last(notifications').message.price[1].amount =
                   checks[k].seen.price - checks[k].prev.price]_vars

\* handleProductUpdate found a change in the reply.
Changed(product, reply) ==
    \/ reply.product.price # product.monitoring.lastPrice
    \/ OrInStock(reply.product.stock) # product.monitoring.lastStock
\* No line of the message qualifies for the change in the reply.
NoLineFor(product, reply) ==
    /\ \/ reply.product.price = product.monitoring.lastPrice
       \/ ~product.monitoring.priceAlert
       \/ Abs(reply.product.price - product.monitoring.lastPrice)
             < product.monitoring.priceThreshold
    /\ \/ OrInStock(reply.product.stock) = product.monitoring.lastStock
       \/ ~product.monitoring.stockAlert

\* C8: a check that found a change for which no line qualifies appends each
\* changed value to its history, sets lastPrice / lastStock to it and writes
\* the list (the stored list is the map once the store took the write); it
\* creates no notification and ends after the write.
C8_SilentChangeRecorded ==
    [][/\ \A k \in CheckIds, reply \in ParseReplies, ok \in BOOLEAN :
            (/\ ParseResolved(k, reply, ok)
             /\ reply.success
             /\ HasProduct(monitoringProducts, checks[k].id)
             /\ Changed(monitoringProducts[checks[k].id], reply)
             /\ NoLineFor(monitoringProducts[checks[k].id], reply))
            => LET old == monitoringProducts[checks[k].id]
                   new == monitoringProducts'[checks[k].id]
                   newStock == OrInStock(reply.product.stock)
               IN /\ new.monitoring.lastPrice = reply.product.price
                  /\ new.monitoring.lastStock = newStock
                  /\ new.history.price =
                       IF reply.product.price # old.monitoring.lastPrice
                       THEN Append(old.history.price,
                                   [value |-> reply.product.price, timestamp |-> now])
                       ELSE old.history.price
                  /\ new.history.stock =
                       IF newStock # old.monitoring.lastStock
                       THEN Append(old.history.stock,
                                   [status |-> newStock, timestamp |-> now])
                       ELSE old.history.stock
                  /\ ok => stored' = monitoringProducts'
                  /\ UNCHANGED notifications
      /\ \A k \in CheckIds :
            (LeavesSaving(k) /\ ~PriceQualifies(k) /\ ~StockQualifies(k)) =>
               /\ UNCHANGED <<notifications, monitoringProducts, stored>>
               /\ checks'[k].pc = "over"]_vars

\* C8 witness: lastPrice 10000, threshold 500, new price 10450: the check
\* ended without a notification, one entry was appended to history.price,
\* lastPrice is 10450 and the stored list holds it.
C8_Witness ==
    \E k \in DOMAIN checks :
        /\ checks[k].outcome = "silent"
        /\ HasProduct(monitoringProducts, checks[k].id)
        /\ LET p == monitoringProducts[checks[k].id] IN
           /\ p.monitoring.priceThreshold = 500
           /\ p.monitoring.lastPrice = 10450
           /\ p.history.price = <<[value |-> 10000, timestamp |-> 0],
                                  [value |-> 10450, timestamp |-> 0]>>
           /\ Len(p.history.stock) = 1
        /\ stored = monitoringProducts
        /\ notifications = <<>>

\* C9 as stated: a check that found a stock change of a product with
\* stockAlert creates exactly one notification, with the line from the old
\* status to the new one; no check creates more than one notification.
C9_StockAlertNotifies ==
    [][/\ \A k \in CheckIds :
            (LeavesSaving(k) /\ StockQualifies(k)) =>
               /\ OneNotification(k)
               /\ Last(notifications').message.stock =
                     <<[from |-> stockText(checks[k].prev.stock),
                        to |-> stockText(checks[k].seen.stock)]>>
      /\ \A i, j \in DOMAIN notifications' :
            notifications'[i].check = notifications'[j].check => i = j]_vars

\* The parts of C9 that hold: the stock line where the store write resolved,
\* and at most one notification per check.
C9_AfterWrite ==
    [][/\ \A k \in CheckIds :
            (LeavesSaving(k) /\ StockQualifies(k) /\ checks[k].saveOk) =>
               /\ OneNotification(k)
               /\ Last(notifications').message.stock =
                     <<[from |-> stockText(checks[k].prev.stock),
                        to |-> stockText(checks[k].seen.stock)]>>
      /\ \A i, j \in DOMAIN notifications' :
            notifications'[i].check = notifications'[j].check => i = j]_vars

\* The history h after one more entry, under the cap: the entries of h in
\* their order without the oldest ones over the cap, then the entry.
Evicting(h, entry) ==
    LET all == Append(h, entry)
        over == IF Len(all) > HistoryCap THEN Len(all) - HistoryCap ELSE 0
    IN [i \in 1..(Len(all) - over) |-> all[i + over]]
\* A step leaves the history h as it is, or appends one entry to it and
\* evicts the oldest entries over the cap.
FifoStep(h, hNext) ==
    \/ hNext = h
    \/ /\ hNext # <<>>
       /\ hNext = Evicting(h, Last(hNext))
\* A step that recorded a new last value appended it to the history h.
Recorded(last, lastNext, h, hNext, field) ==
    lastNext # last =>
        /\ hNext # <<>>
        /\ Last(hNext)[field] = lastNext
        /\ hNext = Evicting(h, Last(hNext))

\* C10: no history of a product in the map holds more than 100 entries, and
\* a check changes a history only by appending one entry at the end and
\* dropping the oldest entries over the cap, the others keeping their order;
\* the value a check records as lastPrice / lastStock is the last entry.
C10_HistoryCapFifo ==
    /\ [](\A id \in DOMAIN monitoringProducts :
             /\ Len(monitoringProducts[id].history.price) <= HistoryCap
             /\ Len(monitoringProducts[id].history.stock) <= HistoryCap)
    /\ [][\A id \in DOMAIN monitoringProducts \cap DOMAIN monitoringProducts' :
             LET old == monitoringProducts[id]
                 new == monitoringProducts'[id]
             IN /\ FifoStep(old.history.price, new.history.price)
                /\ FifoStep(old.history.stock, new.history.stock)
                /\ Recorded(old.monitoring.lastPrice, new.monitoring.lastPrice,
                            old.history.price, new.history.price, "value")
                /\ Recorded(old.monitoring.lastStock, new.monitoring.lastStock,
                            old.history.stock, new.history.stock, "status")]_vars

\* C10 witness: a price history at the cap took one more entry: it holds
\* 100 entries, the entry written at time 1 is gone, the new entry is last.
C10_Witness ==
    \E id \in DOMAIN monitoringProducts :
        LET h == monitoringProducts[id].history.price IN
        /\ Len(h) = HistoryCap
        /\ h[1].timestamp = 2
        /\ Last(h).timestamp = now


(***************************************************************************)
(* C11: checks of one product never overlap                                *)
(***************************************************************************)
\* The checkProduct executions of productId that are in flight: the page is
\* being opened or is open, or the extraction or the update is not over.
InFlight(productId) ==
    {k \in DOMAIN checks : checks[k].id = productId /\ checks[k].pc # "over"}

\* C11: at no time are two checks of the same product in flight; a firing
\* that arrives while a check of its product is in flight starts no second
\* check and opens no second page.
C11_ChecksNeverOverlap ==
    \A productId \in ProductIds : Cardinality(InFlight(productId)) <= 1

(***************************************************************************)
(* C12: checks of different products are independent                       *)
(***************************************************************************)
\* The n-th check of productId was started and has run to its end.
CheckCompleted(productId, n) ==
    /\ Len(ChecksOf(productId)) >= n
    /\ ChecksOf(productId)[n].pc = "over"
    /\ ChecksOf(productId)[n].outcome # "skipped"

\* C12: whatever the checks of product A do, and even if none of them ever
\* completes, a pending firing for the registered product B leads to a
\* check of B that is started and runs to its end; and a changed reply to a
\* check of B while a check of A is in flight is applied to B's entry and
\* leaves A's entry alone.
C12_Independent ==
    /\ \A n \in 0..(MaxChecks - 1) :
         (AlarmName(ProductB) \in firings /\ Len(ChecksOf(ProductB)) = n)
            ~> CheckCompleted(ProductB, n + 1)
    /\ [][\A k \in PairSlots, reply \in PairReplies, ok \in BOOLEAN :
            (/\ ParseResolved(k, reply, ok)
             /\ checks[k].id = ProductB
             /\ reply.success
             /\ InFlight(ProductA) # {})
            => /\ monitoringProducts'[ProductB].monitoring.lastPrice
                    = reply.product.price
               /\ monitoringProducts'[ProductA] = monitoringProducts[ProductA]
               /\ InFlight(ProductA)' = InFlight(ProductA)]_vars

\* A check of A is still waiting for its extraction request while a check
\* of B, started after it, has applied its update and notified.
C12_Witness ==
    /\ Len(checks) >= 2
    /\ checks[1].id = ProductA /\ checks[1].pc = "parse"
    /\ \E k \in DOMAIN checks :
         /\ k > 1
         /\ checks[k].id = ProductB
         /\ checks[k].outcome = "notified"
         /\ monitoringProducts[ProductB].monitoring.lastPrice = 10450

(***************************************************************************)
(* C13: stopStoreScraping is cooperative                                   *)
(***************************************************************************)
\* Positions of a chain inside the try block of an item: from taking the
\* target off the queue to closing its page.
MidItemPcs == {"create", "load", "settle", "collect", "save", "remove"}
MidItem(c) == c \in DOMAIN chains /\ chains[c].pc \in MidItemPcs

\* Chain c takes a target off the queue in this step.
TakesTarget(c) ==
    /\ c \in DOMAIN chains'
    /\ chains'[c].pc = "create"
    /\ ~(c \in DOMAIN chains /\ chains[c].pc = "create")

\* C13: a stop leaves every chain where it is and every page open, clears
\* the queue and the active flag; a chain takes a target only while the run
\* is active, so none is taken between a stop and the next start; and an
\* item in progress when the run was stopped goes on to its end, its data
\* saved and its page closed by the chain as without the stop.
C13_StopCooperative ==
    /\ [][StopStoreScraping =>
            /\ UNCHANGED <<chains, scrapeTabs, pageMsgs, currentTabId>>
            /\ scrapingQueue' = <<>>
            /\ ~isScrapingActive']_vars
    /\ [][\A c \in ChainIds :
            TakesTarget(c) =>
                /\ isScrapingActive'
                /\ \/ /\ isScrapingActive
                      /\ scrapingQueue = <<chains'[c].url>> \o scrapingQueue'
                   \/ /\ Len(chains') > Len(chains)
                      /\ c = Len(chains')]_vars
    /\ [][\A c \in ChainIds :
            (AtPc(c, "save") /\ SaveDone(c)) =>
                /\ chains'[c].pc = "remove"
                /\ chains'[c].tab = chains[c].tab]_vars
    /\ [][\A c \in ChainIds :
            (AtPc(c, "remove") /\ RemoveResolved(c)) =>
                chains[c].tab \notin scrapeTabs']_vars
    /\ \A c \in ChainIds :
         (MidItem(c) /\ ~isScrapingActive) ~> (c \in DOMAIN chains /\ ~MidItem(c))

\* The run of two links was stopped while its only chain was collecting the
\* first: the chain has saved the data and is closing the page, the second
\* link is gone from the queue.
C13_Witness ==
    /\ Len(chains) = 1
    /\ chains[1].pc = "remove"
    /\ chains[1].totalLinks = 2
    /\ chains[1].tab \in scrapeTabs
    /\ ~isScrapingActive
    /\ scrapingQueue = <<>>

(***************************************************************************)
(* C14: handleBatchCollect always responds, exactly once                   *)
(***************************************************************************)
\* C14: an invocation of handleBatchCollect never responds twice, has
\* responded exactly once when it is over, and is over in the end; the
\* response is the error of the empty tab list or of the failed query when
\* no target was processed, and otherwise the success response with the
\* full summary: total = the number of product tabs, success + failed =
\* total, one errors entry per failed target.
C14_RespondsOnce ==
    /\ [](\A r \in RunIds :
            LET run == runs[r] IN
            /\ Len(run.responses) = (IF run.pc = "done" THEN 1 ELSE 0)
            /\ run.pc = "done" =>
                 LET resp == run.responses[1] IN
                 IF run.productTabs = <<>>
                 THEN /\ ~resp.success
                      /\ resp.error \in {ErrNoProductTabs, ErrOther}
                 ELSE /\ resp.success
                      /\ run.i = Len(run.productTabs)
                      /\ resp.results = run.results
                      /\ resp.results.total = Len(run.productTabs)
                      /\ resp.results.success + resp.results.failed
                            = resp.results.total
                      /\ Len(resp.results.errors) = resp.results.failed)
    /\ \A r \in RunIds : (runs[r].pc # "idle") ~> (runs[r].pc = "done")

\* One invocation found no product tab or could not query the tabs and
\* answered with the error; the other processed three targets, all failed,
\* and answered with the summary.
C14_Witness ==
    \E r, q \in RunIds :
        /\ runs[r].pc = "done" /\ runs[q].pc = "done"
        /\ runs[r].responses = <<[success |-> FALSE, results |-> IdleRun.results,
                                  error |-> ErrOther]>>
        /\ Len(runs[q].responses) = 1
        /\ runs[q].responses[1].success
        /\ runs[q].responses[1].results.total = 3
        /\ runs[q].responses[1].results.failed = 3

(***************************************************************************)
(* C15: no error inside an item ends the run                               *)
(***************************************************************************)
\* Store scraping has come to rest: chains were started and none is live.
ScrapingAtRest == chains # <<>> /\ LiveChains(SCur) = {}

\* C15 as stated, for store scraping: whichever step of an item failed, a
\* run that was neither stopped nor overlapped by another start and has
\* come to rest has processed every target, has sent scrapingComplete last
\* and has isScrapingActive = false.
C15_ItemErrorsContained ==
    (runClean /\ ScrapingAtRest) =>
        /\ ~isScrapingActive
        /\ scrapingQueue = <<>>
        /\ pageMsgs # <<>>
        /\ Last(pageMsgs).action = "scrapingComplete"

(***************************************************************************)
(* C16: startMonitoring with an interval that is not positive              *)
(***************************************************************************)
\* C16 as stated: a startMonitoring call with a non-positive interval
\* leaves the map, the stored list and the alarms as they were, in the step
\* of the call and in every later step of that call.
C16_InvalidIntervalRejected ==
    [][(\E product \in ProductSamples, options \in InvalidIntervalOptions,
           ok \in BOOLEAN : StartMonitoring(product, options, ok))
        => UNCHANGED <<monitoringProducts, stored, alarms>>]_vars

(***************************************************************************)
(* C17: a run without targets                                              *)
(***************************************************************************)
\* handleStoreScraping with an empty links list: the initial progress
\* message with total 0 is followed at once by scrapingComplete, and the
\* chain opens no page.
EmptyScrapeCompletes ==
    (runClean /\ pageMsgs # <<>> /\ pageMsgs[1].total = 0) =>
        /\ Len(pageMsgs) = 2
        /\ pageMsgs[2].action = "scrapingComplete"
        /\ Last(chains).pc \in {"complete", "ended"}
        /\ Last(chains).tab = NoTab

\* C17 as stated: a run without targets is completed at once with total =
\* 0 and opens no page: handleBatchCollect with no product tab among the
\* open tabs answers with a success response whose summary has total = 0,
\* not with an error, and handleStoreScraping with no link completes.
C17_EmptyRunCompletes ==
    /\ \A r \in RunIds :
         (runs[r].pc = "done" /\ runs[r].productTabs = <<>>
             /\ runs[r].responses[1].error # ErrOther)
         => /\ runs[r].responses[1].success
            /\ runs[r].responses[1].results.total = 0
    /\ EmptyScrapeCompletes

(***************************************************************************)
(* C18: progress is strictly increasing, also across a stop                *)
(***************************************************************************)
\* C18 as stated: in a store-scraping run (one start, stopped or not) the
\* current values of the updateProgress messages are strictly increasing.
C18_ProgressStrictlyIncreasing ==
    Len(chains) = 1 =>
        \A k \in 2..Len(ProgressMsgs) :
            ProgressMsgs[k].current > ProgressMsgs[k - 1].current

(***************************************************************************)
(* C19: targets are processed in the order supplied, one at a time         *)
(***************************************************************************)
\* Invocation r of handleBatchCollect starts on a tab in this step.
StartsTab(r) ==
    /\ runs'[r].pc = "update"
    /\ runs[r].pc # "update" \/ runs'[r].i # runs[r].i

\* C19 as stated: handleBatchCollect starts on the tabs of its filtered
\* list in their order, the first after the query and each next one when
\* the one before is over; a store-scraping chain takes the head of what is
\* left of the links list, and takes it only when no target taken before is
\* still being processed.
C19_InOrderOneAtATime ==
    /\ [][\A r \in RunIds :
            StartsTab(r) =>
                /\ runs'[r].i = (IF runs[r].pc = "query" THEN 0 ELSE runs[r].i + 1)
                /\ runs[r].pc \in {"query", "update", "send", "inject", "itemDelay"}
                /\ runs'[r].progress = Append(runs[r].progress,
                        [current |-> runs'[r].i + 1,
                         total |-> Len(runs'[r].productTabs)])]_vars
    /\ [][\A c \in ChainIds :
            TakesTarget(c) =>
                /\ <<chains'[c].url>> \o scrapingQueue'
                      \in {scrapingQueue} \cup LinkSamples
                /\ \A d \in DOMAIN chains \ {c} : ~MidItem(d)]_vars

(***************************************************************************)
(* C20: sendMessageToTabWithRetry                                          *)
(***************************************************************************)
\* The positions of the entry e in the trace t of a call.
Positions(t, e) == {p \in DOMAIN t : t[p] = e}
FailedEntries == {"failedConnection", "failedOther"}
DelayEntries == {"delay500", "delay1000"}

\* C20: a call of sendMessageToTabWithRetry sends at most `retries` times;
\* it injects the collector script at most once, and only right after its
\* first send failed with the connection error; a failed send is followed
\* by a fixed delay (500 ms after the injection, 1000 ms otherwise) before
\* the next send.
C20_RetryDiscipline ==
    \A r \in RunIds :
        LET t == runs[r].trace IN
        /\ Cardinality(Positions(t, "send")) <= runs[r].retries
        /\ Cardinality(Positions(t, "inject")) <= 1
        /\ \A p \in Positions(t, "inject") :
              p = 3 /\ t[1] = "send" /\ t[2] = "failedConnection"
        /\ \A p \in Positions(t, "send") :
              p > 1 => /\ t[p - 1] \in DelayEntries
                       /\ t[p - 2] \in FailedEntries \cup {"inject"}
        /\ \A p \in Positions(t, "delay500") : t[p - 1] = "inject"
        /\ \A p \in DOMAIN t :
              (t[p] \in FailedEntries /\ p < Len(t)) =>
                  t[p + 1] \in {"inject", "delay1000"}

\* A call with retries = 3 whose first send failed with the connection
\* error: script injected, 500 ms, second send failed otherwise, 1000 ms,
\* third and last send.
C20_Witness ==
    \E r \in RunIds :
        /\ runs[r].retries = 3
        /\ runs[r].pc = "send"
        /\ runs[r].trace = <<"send", "failedConnection", "inject", "delay500",
                             "send", "failedOther", "delay1000", "send">>

(***************************************************************************)
(* C21: exhausted retries raise the error                                  *)
(***************************************************************************)
\* The sendMessageToTabWithRetry call of invocation r returns normally in
\* this step: handleBatchCollect counts the item as succeeded.
ReturnsNormally(r) ==
    runs'[r].results.success = runs[r].results.success + 1

\* The call of invocation r raises in this step: handleBatchCollect counts
\* the item as failed.
Raises(r) ==
    runs'[r].results.failed = runs[r].results.failed + 1

\* C21 as stated: for every retries >= 1 a call returns normally only in
\* the step in which one of its sends succeeded; a call whose sends all
\* failed raises, and handleBatchCollect records the item as failed with the
\* error of the last send.
C21_ExhaustedRetriesRaise ==
    [][\A r \in RunIds :
          /\ (runs[r].retries >= 1 /\ ReturnsNormally(r)) => runs[r].pc = "send"
          /\ Raises(r) =>
                /\ Len(runs'[r].results.errors) = Len(runs[r].results.errors) + 1
                /\ Last(runs'[r].results.errors).error \in SendErrors]_vars

(***************************************************************************)
(* C22: a failure reply of the collector is not a success                  *)
(***************************************************************************)
\* C22 as stated: a send that the collector answers with success = false
\* does not count the item as succeeded: the item is retried while the
\* budget lasts and then counted in results.failed.
C22_FailureReplyNotSuccess ==
    [][\A r \in RunIds, reply \in CollectorReplies :
          (SendResolvedWith(r, reply) /\ ~reply.success) =>
              /\ runs'[r].results.success = runs[r].results.success
              /\ \/ runs'[r].pc \in {"backoff", "send"}
                 \/ runs'[r].results.failed = runs[r].results.failed + 1]_vars

(***************************************************************************)
(* C23: the delay between items                                            *)
(***************************************************************************)
\* C23 as stated: an invocation of handleBatchCollect starts on a tab
\* after the first only in the step in which delay(2000) is over, and a
\* chain of processScrapingQueue takes a target after its first only in the
\* step in which sleep(delay) is over, whether the item before succeeded or
\* failed.
C23_DelayBetweenItems ==
    /\ [][\A r \in RunIds :
            (StartsTab(r) /\ runs[r].pc # "query") => runs[r].pc = "itemDelay"]_vars
    /\ [][\A c \in ChainIds :
            (TakesTarget(c) /\ c \in DOMAIN chains) => chains[c].pc = "rateSleep"]_vars

(***************************************************************************)
(* C24: waitForTabLoad never fails and always completes                    *)
(***************************************************************************)
\* C24: in both engines an item that waits for its page to load goes on to
\* the settle delay, whether 'complete' is reported before the timer fires
\* or never; no step takes the item from the wait to anything but the settle
\* delay, and the wait fails no item.
C24_WaitForTabLoadResolves ==
    /\ \A r \in RunIds : (runs[r].pc = "load") ~> (runs[r].pc = "settle")
    /\ \A c \in ChainIds : AtPc(c, "load") ~> AtPc(c, "settle")
    /\ [][\A r \in RunIds :
            (runs[r].pc = "load" /\ runs'[r].pc # "load") =>
                /\ runs'[r].pc = "settle"
                /\ runs'[r].results = runs[r].results]_vars
    /\ [][\A c \in ChainIds :
            (AtPc(c, "load") /\ chains'[c].pc # "load") =>
                chains'[c].pc = "settle"]_vars

\* The tab of an invocation was gone when waitForTabLoad asked for it, no
\* listener was added, and the timer has resolved the wait.
C24_Witness ==
    \E r \in RunIds : runs[r].pc = "settle" /\ runs[r].wait = "timeout"

(***************************************************************************)
(* C25: a stopped run ends as Stopped and keeps its count                  *)
(***************************************************************************)
\* C25 as stated: stopStoreScraping leaves the count of the targets already
\* processed as it is, and a chain that finds the run stopped when its
\* rate-limit sleep is over ends the run with a message other than the
\* scrapingComplete of a run that processed all its targets.
C25_StoppedOutcomeRetained ==
    /\ [][StopStoreScraping => completedCount' = completedCount]_vars
    /\ [][\A c \in ChainIds :
            (RateSleepDone(c) /\ ~isScrapingActive /\ chains'[c].pc = "complete")
                => Last(pageMsgs').action # "scrapingComplete"]_vars

(***************************************************************************)
(* C26: a stopped product is never resurrected by a check in flight        *)
(***************************************************************************)
\* C26: once stopMonitoring(id) has returned and id is out of the map, no
\* step of a checkProduct execution for id, handleProductUpdate included,
\* puts id back into the map, and the stored list such a step leaves is the
\* one it found or has no entry for id.
C26_StoppedNeverResurrected ==
    [][\A id \in ProductIds, k \in CheckIds :
          (/\ id \in stopped
           /\ ~HasProduct(monitoringProducts, id)
           /\ CheckStepOf(id, k, LifecycleReplies))
              => /\ ~HasProduct(monitoringProducts', id)
                 /\ stored' = stored \/ ~HasProduct(stored', id)]_vars

\* The page of a check answered after stopMonitoring had removed the product:
\* handleProductUpdate found no product and returned, and the stop has
\* returned.
C26_Witness ==
    \E k \in DOMAIN checks :
        /\ checks[k].outcome = "unregistered"
        /\ checks[k].id \in stopped
        /\ ~HasProduct(monitoringProducts, checks[k].id)
        /\ ~HasProduct(stored, checks[k].id)

(***************************************************************************)
(* C27: alarms are 1:1 with the registered products                        *)
(***************************************************************************)
\* C27 as stated: whenever no startMonitoring, stopMonitoring or
\* updateMonitoringOptions call is in flight, the alarm monitor_<id> exists
\* exactly when id is in the map.
C27_AlarmsMatchProducts ==
    calls = {} =>
        \A id \in ProductIds :
            (AlarmName(id) \in DOMAIN alarms) <=> HasProduct(monitoringProducts, id)

(***************************************************************************)
(* C28: only a changed interval touches the alarm                          *)
(***************************************************************************)
\* C28 as stated: an updateMonitoringOptions call whose options carry no
\* interval, or the interval the alarm of the product already has, leaves
\* the alarms as they are in every one of its steps; a call for an id that
\* is not in the map changes nothing.
C28_AlarmTouchedOnlyOnChange ==
    /\ [][\A id \in ProductIds, call \in calls :
            (/\ call.op = "update" /\ call.id = id
             /\ AlarmName(id) \in DOMAIN alarms
             /\ call.interval \in {0, alarms[AlarmName(id)]}
             /\ ScheduleClear(id) \/ ScheduleCreate(id) \/ CallReturned(id))
                => alarms' = alarms]_vars
    /\ [][\A id \in ProductIds, options \in UpdateOptionSamples, ok \in BOOLEAN :
            (/\ ~HasProduct(monitoringProducts, id)
             /\ UpdateMonitoringOptions(id, options, ok))
                => UNCHANGED <<monitoringProducts, stored, alarms, calls>>]_vars

(***************************************************************************)
(* C29: a failed check changes nothing and is retried                      *)
(***************************************************************************)
\* The step in which execution k of checkProduct fails: its page cannot be
\* opened, its parseProduct request is rejected, or the reply is a failure.
FailedCheckStep(k) ==
    \/ \E ok \in BOOLEAN : CheckCreateRejected(k, ok)
    \/ ParseRejected(k)
    \/ \E reply \in LifecycleReplies, ok \in BOOLEAN :
         ~reply.success /\ ParseResolved(k, reply, ok)

\* What handleProductUpdate writes of a product.
Tracked(product) ==
    [history |-> product.history,
     lastPrice |-> product.monitoring.lastPrice,
     lastStock |-> product.monitoring.lastStock]

\* C29: the step in which a check fails leaves the histories, lastPrice and
\* lastStock of every product, the notifications and the alarms as they
\* are; and whatever checks have failed before, the listener starts a check
\* at every firing for a product that is registered and enabled.
C29_FailedCheckSilentAndRetried ==
    /\ [][\A k \in CheckIds :
            FailedCheckStep(k) =>
                /\ alarms' = alarms
                /\ notifications' = notifications
                /\ DOMAIN monitoringProducts' = DOMAIN monitoringProducts
                /\ \A id \in DOMAIN monitoringProducts :
                      Tracked(monitoringProducts'[id]) = Tracked(monitoringProducts[id])]_vars
    /\ [][\A id \in ProductIds :
            (OnAlarm(AlarmName(id)) /\ CheckGuard(monitoringProducts, id))
                => Last(checks') = NewCheck(id)]_vars

\* Two checks of a registered product failed one after the other; its
\* histories hold the entries startMonitoring wrote, nothing was notified and
\* its alarm is in place.
C29_Witness ==
    /\ Len(checks) = 2
    /\ \A k \in DOMAIN checks : checks[k].outcome = "failed"
    /\ checks[1].id = checks[2].id
    /\ HasProduct(monitoringProducts, checks[1].id)
    /\ Len(monitoringProducts[checks[1].id].history.price) = 1
    /\ Len(monitoringProducts[checks[1].id].history.stock) = 1
    /\ notifications = <<>>
    /\ AlarmName(checks[1].id) \in DOMAIN alarms

(***************************************************************************)
(* C30: every page a check opens is closed                                 *)
(***************************************************************************)
\* Execution k of checkProduct has opened its page and is not over.
PageOpen(k) ==
    k \in DOMAIN checks /\ checks[k].pc # "over" /\ checks[k].tab # NoTab

\* C30: every page that is open belongs to a check that is not over, and
\* a check that has opened its page comes to its end, whether the request
\* succeeds, fails, or handleProductUpdate raises: the page is closed.
C30_CheckPagesClosed ==
    /\ [](\A t \in monTabs : \E k \in CheckIds : PageOpen(k) /\ checks[k].tab = t)
    /\ \A k \in CheckIds :
          PageOpen(k) ~> CheckAt(k, "over")

\* A check that notified and a check that failed are over, and no page is
\* open.
C30_Witness ==
    /\ \E k \in DOMAIN checks : checks[k].outcome = "notified"
    /\ \E k \in DOMAIN checks : checks[k].outcome \in {"failed", "unregistered"}
    /\ monTabs = {}

(***************************************************************************)
(* C31: a check without a change writes nothing                            *)
(***************************************************************************)
\* C31 as stated: the only step of a checkProduct execution that changes the
\* stored list is the one in which handleProductUpdate has detected a change
\* of price or stock and goes on to save it.
C31_NoChangeNoWrite ==
    [][\A k \in CheckIds :
          (/\ k \in DOMAIN checks
           /\ CheckStepOf(checks[k].id, k, ParseReplies)
           /\ checks'[k].pc # "saving")
              => stored' = stored]_vars

(***************************************************************************)
(* C32: the histories of a registered product are append-only              *)
(***************************************************************************)
\* The timestamps of the history h do not decrease.
TimeOrdered(h) == \A i \in 1..(Len(h) - 1) : h[i].timestamp <= h[i + 1].timestamp

\* C32 as stated: whatever step is taken (a check, updateMonitoringOptions,
\* startMonitoring again for the same id), the histories of a product that
\* is in the map before and after it are left as they are or take one entry
\* at the end, the oldest leaving at the cap; and they are ordered in time.
C32_HistoriesAppendOnly ==
    /\ [](\A id \in DOMAIN monitoringProducts :
             /\ TimeOrdered(monitoringProducts[id].history.price)
             /\ TimeOrdered(monitoringProducts[id].history.stock))
    /\ [][\A id \in DOMAIN monitoringProducts \cap DOMAIN monitoringProducts' :
             /\ FifoStep(monitoringProducts[id].history.price,
                         monitoringProducts'[id].history.price)
             /\ FifoStep(monitoringProducts[id].history.stock,
                         monitoringProducts'[id].history.stock)]_vars

(***************************************************************************)
(* C33: lastPrice and lastStock are the last history entries               *)
(***************************************************************************)
\* No two neighbours of the history h carry the same value in `field`.
NoRepeat(h, field) == \A i \in 1..(Len(h) - 1) : h[i][field] # h[i + 1][field]

\* C33: for every product in the map both histories are non-empty,
\* lastPrice is the value of the last entry of history.price, lastStock the
\* status of the last entry of history.stock, and no entry repeats the value
\* of the entry before it.
C33_LastIsLastEntry ==
    \A id \in DOMAIN monitoringProducts :
        LET p == monitoringProducts[id] IN
        /\ p.history.price # <<>> /\ p.history.stock # <<>>
        /\ p.monitoring.lastPrice = Last(p.history.price).value
        /\ p.monitoring.lastStock = Last(p.history.stock).status
        /\ NoRepeat(p.history.price, "value")
        /\ NoRepeat(p.history.stock, "status")

\* Two checks of a product whose interval was updated recorded a new price,
\* then the old price with a new stock.
C33_Witness ==
    \E id \in DOMAIN monitoringProducts :
        /\ Len(monitoringProducts[id].history.price) = 3
        /\ Len(monitoringProducts[id].history.stock) = 2
        /\ monitoringProducts[id].monitoring.interval = 30

(***************************************************************************)
(* C34: the page of a target is closed before the next target              *)
(***************************************************************************)
\* C34 as stated: when a chain of processScrapingQueue comes back from its
\* rate-limit sleep, to take the next target or to end the run, the page it
\* opened for the target before is closed, whether the collection request
\* succeeded or a step after the opening failed.
C34_PageClosedBeforeNext ==
    [][\A c \in ChainIds :
          RateSleepDone(c) => chains[c].tab \notin scrapeTabs]_vars

(***************************************************************************)
(* C35: no saved product is lost                                           *)
(***************************************************************************)
\* C35 as stated: once every handleSaveProduct execution has completed,
\* every product whose save reported success has an entry in the stored
\* products list, the list has at most one entry per URL, and stats.total is
\* the length of the list.
C35_NoSavedProductLost ==
    (\A k \in DOMAIN saves : saves[k].pc = "done") =>
        /\ \A k \in DOMAIN saves :
              saves[k].response = "success" =>
                 \E i \in DOMAIN products : products[i].url = saves[k].data.url
        /\ \A i, j \in DOMAIN products :
              products[i].url = products[j].url => i = j
        /\ stats.total = Len(products)

(***************************************************************************)
(* C36: persisted state survives a restart of the worker                   *)
(***************************************************************************)
\* C36 as stated: a start of the worker leaves the stored products list,
\* settings and stats as they were, and the monitoring set loaded at the
\* start is the stored monitoringProducts list.
C36_StateSurvivesRestart ==
    /\ [][(\E ok \in BOOLEAN : WorkerStarts(ok)) =>
             UNCHANGED <<products, settings, stats>>]_vars
    /\ [][MLoadResolved => monitoringProducts' = stored]_vars

(***************************************************************************)
(* C38: initializeSupabase hands out initialized clients only              *)
(***************************************************************************)
\* C38 as stated: an initializeSupabase call that has returned has returned
\* a client exactly when the initialize() of that client had completed
\* successfully by then, and null otherwise; no caller receives a client
\* whose initialization is pending or has failed.
C38_ClientOnlyWhenReady ==
    \A k \in DOMAIN inits :
        inits[k].pc = "returned" =>
            (inits[k].result # NoClient <=> inits[k].state = "ready")

(***************************************************************************)
(* C37: the product id round-trips through the alarm name                  *)
(***************************************************************************)
\* C37 as stated: for every id startMonitoring has registered, the listener
\* run for a firing of the alarm monitor_<id> starts checkProduct for that
\* id: the id recovered from the name is the key startMonitoring stored the
\* product under, and the check passes its guard.
C37_IdRoundTrips ==
    [][\A id \in RoundTripIds :
          (OnAlarm(AlarmName(id)) /\ CheckGuard(monitoringProducts, id)) =>
              /\ Last(checks').id = id
              /\ Last(checks').pc = "create"]_vars

(***************************************************************************)
(* C39: the counts of bulkRegister and the cap of the registration logs    *)
(***************************************************************************)
\* C39: the results bulkRegister returns have success + failed = total =
\* the number of products and one details entry per product, in the order
\* of the products, whether registerProduct raised, returned a failure or
\* a log write failed; registrationLogs never has more than LogCap entries,
\* and a write of it appends one entry and drops entries from the front
\* only, and only at the cap.
C39_BulkCounts ==
    /\ [](bulk.pc = "returned" =>
            LET results == bulk.results IN
            /\ results.success + results.failed = results.total
            /\ results.total = Len(bulk.products)
            /\ Len(results.details) = Len(bulk.products)
            /\ \A i \in DOMAIN results.details :
                  /\ results.details[i].productId = bulk.products[i].id
                  /\ results.details[i].productName = bulk.products[i].name)
    /\ [](Len(registrationLogs) <= LogCap)
    /\ [][registrationLogs' # registrationLogs =>
            LET dropped == Len(registrationLogs) + 1 - Len(registrationLogs') IN
            /\ dropped >= 0
            /\ dropped > 0 => Len(registrationLogs') = LogCap
            /\ \A i \in 1..(Len(registrationLogs') - 1) :
                  registrationLogs'[i] = registrationLogs[i + dropped]]_vars

\* C39 witness: bulkRegister has returned for two products; for the first
\* the log writes failed, the second was registered, and its log entry
\* pushed the oldest entry out of a full list.
C39_Witness ==
    /\ bulk.pc = "returned"
    /\ Len(bulk.products) = 2
    /\ bulk.results.details[1].error = "StorageError"
    /\ bulk.results.details[2].success
    /\ Len(registrationLogs) = LogCap
    /\ registrationLogs[1].timestamp > 1

(***************************************************************************)
(* C40: waitForTabLoad leaves no listener behind                           *)
(***************************************************************************)
\* C40 as stated, for the waitForTabLoad of batch collection: once the wait
\* of an item has resolved, by the 'complete' event or by the timer, the
\* onUpdated listener the call added is registered no more.
C40_NoListenerLeft ==
    \A r \in RunIds :
        runs[r].pc = "settle" => runs[r].wait # "timeoutListening"
(***************************************************************************)
(*                           SPECIFICATIONS                                *)
(***************************************************************************)
Engines == {"batch", "scrape", "monitor", "store", "supabase", "api"}
\* The parts of the worker outside the three engines, at rest.
InitOthers == InitStore /\ InitSupabase /\ InitApi
\* The worker after start, for each engine.
InitEngine(e) == engine = e /\ InitBatch /\ InitScrape /\ InitMonitor /\ InitOthers
Init == \E e \in Engines : InitEngine(e)
Next ==
    \/ NextBatch \/ NextScrape \/ NextMonitor
    \/ NextStore \/ NextSupabase \/ NextApi
Spec == Init /\ [][Next]_vars

\* One engine at a time.
InitBatchEngine == InitEngine("batch")
SpecBatch == InitBatchEngine /\ [][NextBatch]_vars
\* Batch collection where every request of an invocation settles and every
\* delay is over in the end.
SpecBatchFair == SpecBatch /\ \A r \in RunIds : WF_vars(RunStep(r))
\* sendMessageToTabWithRetry for every value of `retries`, 0 included.
InitRetry ==
    /\ engine = "batch" /\ InitScrape /\ InitMonitor /\ InitOthers
    /\ runs \in [RunIds -> {CallingRun(n) : n \in 0..MaxRetries}]
SpecRetry == InitRetry /\ [][NextRetry]_vars
InitScrapeEngine == InitEngine("scrape")
SpecScrape == InitScrapeEngine /\ [][NextScrape]_vars
\* Store scraping where every request of a chain settles and every timer
\* fires.
SpecScrapeFair == SpecScrape /\ \A c \in ChainIds : WF_vars(ChainStep(c))
InitMonitorEngine == InitEngine("monitor")
SpecMonitor == InitMonitorEngine /\ [][NextMonitor]_vars

\* The two collection engines.
InitCollect == \E e \in {"batch", "scrape"} : InitEngine(e)
NextCollect == NextBatch \/ NextScrape
SpecCollect == InitCollect /\ [][NextCollect]_vars

\* The two collection engines where the timers of waitForTabLoad fire; no
\* 'complete' status event, and no other request, is assumed to arrive.
SpecLoad ==
    /\ SpecCollect
    /\ \A r \in RunIds : WF_vars(LoadTimeout(r))
    /\ \A c \in ChainIds : WF_vars(ScrapeLoadTimeout(c))

\* The life cycle of a monitored product: every call, default options.
NextLifecycle ==
    \/ NextChecks(LifecycleReplies)
    \/ NextStart({NoOptions})
    \/ NextStopUpdate({[NoOptions EXCEPT !.enabled = Some(FALSE)]})
SpecLifecycle == InitMonitorEngine /\ [][NextLifecycle]_vars
\* The life cycle where every request of a check settles and the 3 s timer
\* of a check fires.
SpecLifecycleFair ==
    /\ SpecLifecycle
    /\ \A id \in ProductIds, k \in CheckIds :
          WF_vars(CheckStepOf(id, k, LifecycleReplies))

\* The calls on a product without its checks: startMonitoring with the
\* default options, stopMonitoring, and updateMonitoringOptions with and
\* without an interval.
NextOptions ==
    \/ MLoadResolved
    \/ NextStart({NoOptions})
    \/ NextStopUpdate(UpdateOptionSamples)
SpecOptions == InitMonitorEngine /\ [][NextOptions]_vars

\* The records of a product: its page tells new prices and stocks,
\* startMonitoring with the default options (again, too, while it is
\* registered), stopMonitoring, and updateMonitoringOptions with an interval.
NextRecords ==
    \/ NextChecks(RecordReplies)
    \/ NextStart({NoOptions})
    \/ NextStopUpdate({[NoOptions EXCEPT !.interval = Some(30)]})
SpecRecords == InitMonitorEngine /\ [][NextRecords]_vars

\* startMonitoring called with an interval that is not positive, and the
\* checks that follow.
NextInvalidStart ==
    \/ NextChecks(LifecycleReplies)
    \/ NextStart(InvalidIntervalOptions)
    \/ \E id \in ProductIds : ScheduleCreateRejected(id)
SpecInvalidStart == InitMonitorEngine /\ [][NextInvalidStart]_vars

\* The checks of a product registered by an earlier run of the worker:
\* every option, every reply.
InitAlerts ==
    /\ engine = "monitor" /\ InitBatch /\ InitScrape /\ InitOthers
    /\ \E product \in ProductSamples, options \in StartOptionSamples :
         InitService(RegisteredList(product, options),
                     RegisteredAlarms(product, options), 0)
NextAlerts == NextChecks(ParseReplies)
SpecAlerts == InitAlerts /\ [][NextAlerts]_vars

\* The checks of a product whose histories are one entry short of the cap,
\* or at the cap.
InitHistory ==
    /\ engine = "monitor" /\ InitBatch /\ InitScrape /\ InitOthers
    /\ \E product \in ProductSamples, n \in {HistoryCap - 1, HistoryCap} :
         InitService([i \in {product.id} |-> LongHistory(product, n)],
                     RegisteredAlarms(product, NoOptions), HistoryCap + 1)
NextHistory == NextChecks(ParseReplies)
SpecHistory == InitHistory /\ [][NextHistory]_vars

\* Two registered products, A and B.  A check of A has opened its page and
\* sent its extraction request; B's alarm goes off, A's next firing is an
\* interval away.  The requests of the
\* checks of B settle and B's alarm events are handled; nothing is assumed
\* of the check of A, whose request may never return.
HungCheck ==
    [NewCheck(ProductA) EXCEPT !.pc = "parse", !.tab = 1]
InitIndependent ==
    /\ engine = "monitor" /\ InitBatch /\ InitScrape /\ InitOthers
    /\ monitoringProducts = PairList
    /\ initialized = TRUE
    /\ loading = Undef
    /\ stored = PairList
    /\ alarms = PairAlarms
    /\ firings = {}
    /\ calls = {}
    /\ checks = <<HungCheck>>
    /\ monTabs = {HungCheck.tab}
    /\ notifications = <<>>
    /\ stopped = {}
    /\ now = 0
NextIndependent ==
    \/ NextAlarms({ProductB})
    \/ NextCheckSteps(PairSlots, PairReplies)
FairIndependent ==
    /\ WF_vars(OnAlarm(AlarmName(ProductB)))
    /\ \A k \in PairSlots : WF_vars(CheckStepOf(ProductB, k, PairReplies))
SpecIndependent == InitIndependent /\ [][NextIndependent]_vars /\ FairIndependent

\* A registered product with two calls suspended at their awaits:
\* startMonitoring, or updateMonitoringOptions with a new interval, awaits
\* its saveMonitoringList, and a stopMonitoring called after it awaits its
\* chrome.alarms.clear.  The calls go on from there, and further calls
\* follow.
SuspendedCall(op, id, pc, interval) ==
    [op |-> op, id |-> id, pc |-> pc, interval |-> interval, restarted |-> FALSE]
InitRace ==
    /\ engine = "monitor" /\ InitBatch /\ InitScrape /\ InitOthers
    /\ \E product \in ProductSamples :
       \E first \in {SuspendedCall("start", product.id, "saved", DefaultInterval),
                     SuspendedCall("update", product.id, "saved", 30)} :
         /\ monitoringProducts =
               RegisteredList(product,
                   [NoOptions EXCEPT !.interval = Some(first.interval)])
         /\ calls = {first, SuspendedCall("stop", product.id, "clearing", 0)}
    /\ initialized = TRUE
    /\ loading = Undef
    /\ stored = monitoringProducts
    /\ alarms = EmptyMap
    /\ firings = {}
    /\ checks = <<>>
    /\ monTabs = {}
    /\ notifications = <<>>
    /\ stopped = {}
    /\ now = 0
NextRace ==
    \/ NextStart({NoOptions})
    \/ NextStopUpdate(UpdateOptionSamples)
SpecRace == InitRace /\ [][NextRace]_vars

\* Product storage.  The worker has started over what an earlier run left:
\* its initializeStorage() write, which succeeds or fails, is awaited;
\* 'saveProduct' messages and the saves of a store scraping follow.
InitSaves ==
    /\ engine = "store" /\ InitBatch /\ InitScrape /\ InitSupabase /\ InitApi
    /\ products = <<>>
    /\ settings = DefaultSettings
    /\ stats = ZeroStats
    /\ saves = <<>>
    /\ boot \in {"initStorage", "initFailed"}
    /\ monitoringProducts = EmptyMap
    /\ initialized = FALSE
    /\ loading = Undef
    /\ \E product \in ProductSamples :
         stored \in {EmptyMap, RegisteredList(product, NoOptions)}
    /\ alarms = EmptyMap
    /\ firings = {}
    /\ calls = {}
    /\ checks = <<>>
    /\ monTabs = {}
    /\ notifications = <<>>
    /\ stopped = {}
    /\ now = 0
NextSaving == NextSaves \/ NextStartup
SpecSaves == InitSaves /\ [][NextSaving]_vars
\* Product storage over the starts of the worker.
SpecStore == InitSaves /\ [][NextStore]_vars

\* The Supabase client: the calls of the start of the worker, of
\* onInstalled and of the message handlers.
InitSupabaseEngine == InitEngine("supabase")
SpecSupabase == InitSupabaseEngine /\ [][NextSupabase]_vars

\* bulkRegister for a platform with and without API client and
\* credentials, over logs of earlier calls: none, one short of the cap, and
\* at the cap.
InitApiEngine ==
    /\ engine = "api" /\ InitBatch /\ InitScrape /\ InitMonitor
    /\ InitStore /\ InitSupabase
    /\ platformApi \in BOOLEAN
    /\ credentials \in BOOLEAN
    /\ bulk = IdleBulk
    /\ \E n \in {0, LogCap - 1, LogCap} : registrationLogs = EarlierLogs(n)
SpecApi == InitApiEngine /\ [][NextApi]_vars

\* startMonitoring for the ids of RoundTripIds; the alarms of these products
\* go off.
NextRoundTrip ==
    \/ MLoadResolved
    \/ \E product \in RoundTripProducts, ok \in BOOLEAN :
         StartMonitoring(product, NoOptions, ok)
    \/ \E id \in RoundTripIds :
         \/ CallRejected(id)
         \/ ScheduleClear(id)
         \/ ScheduleCreate(id)
         \/ CallReturned(id)
    \/ NextAlarms(RoundTripIds)
SpecRoundTrip == InitMonitorEngine /\ [][NextRoundTrip]_vars
=============================================================================
